---- MODULE Spec2Model ----
(***************************************************************************)
(* Model of src/confluence_api.py (class ConfluenceAPI): the structural    *)
(* table editor, the exact-substring patch and the page store they read    *)
(* from and write to.                                                      *)
(*                                                                         *)
(* A document is a sequence of tokens.  A token is an opening tag with its *)
(* attributes, a closing tag, or a run of text.  The regular expressions   *)
(* of the source are modelled by scans over the token sequence that match  *)
(* the same opening and closing tags in the same (leftmost, non-greedy,    *)
(* non-overlapping) order.                                                 *)
(*                                                                         *)
(* A behaviour is one call of an editor operation on a page of the store,  *)
(* from the call to the result it returns, with another client of the     *)
(* store writing to the same page in between: the client keeps nothing of  *)
(* a call but what it has written to the store.                            *)
(***************************************************************************)
EXTENDS Integers, Sequences, FiniteSets, TLC

(* ------------------------------ bounds --------------------------------- *)
MaxIdx == 2            \* table / row / column indexes range over -1..MaxIdx
MaxOtherWrites == 1    \* writes of the other client of the store in one behaviour
MaxLines == 4          \* lines of a Markdown text given to the compiler
MaxRtLines == 3        \* lines of a Markdown text taken through the round trip
MaxTrips == 2          \* round trips of one text
MaxCalls == 3          \* calls of upload_attachment and _request on one client

Idx == -1..MaxIdx

(* ------------------------------ tokens --------------------------------- *)
NoAttr == [colspan |-> 0, rowspan |-> 0, style |-> "", class |-> "", hl |-> ""]
Txt(s) == [k |-> "text", n |-> s, a |-> NoAttr, v |-> ""]
Open(n, a) == [k |-> "open", n |-> n, a |-> a, v |-> ""]
Close(n) == [k |-> "close", n |-> n, a |-> NoAttr, v |-> ""]
\* a tag with one value: <ri:attachment ri:filename="v"/>, <img src="v"/>, <a href="v">
Void(n, v) == [k |-> "void", n |-> n, a |-> NoAttr, v |-> v]
OpenV(n, v) == [k |-> "open", n |-> n, a |-> NoAttr, v |-> v]
\* Markdown inline syntax in an input string: **n**, *n*, `n`, [n](v), ![n](v), [image:n]
Md(kind, n, v) == [k |-> kind, n |-> n, a |-> NoAttr, v |-> v]
IsTag(t) == t.k \in {"open", "close", "void"}
O(n) == Open(n, NoAttr)
Colspan(c) == [NoAttr EXCEPT !.colspan = c]
Rowspan(c) == [NoAttr EXCEPT !.rowspan = c]
Styled(s, c, h) == [NoAttr EXCEPT !.style = s, !.class = c, !.hl = h]
NL == Txt("\n")

Slice(s, i, j) == SubSeq(s, i, j)
From(s, i) == SubSeq(s, i, Len(s))
Min(a, b) == IF a <= b THEN a ELSE b
Max(a, b) == IF a >= b THEN a ELSE b

RECURSIVE Concat(_)
Concat(ss) == IF ss = <<>> THEN <<>> ELSE Head(ss) \o Concat(Tail(ss))

(* Python's seq[i]: a negative i counts from the end; "in range" is the    *)
(* condition under which seq[i] does not raise IndexError.                 *)
PyInRange(s, i) == -Len(s) <= i /\ i < Len(s)
PyPos(s, i) == IF i >= 0 THEN i + 1 ELSE Len(s) + i + 1

(* ------------------- the regular expressions, as scans ----------------- *)
\* what = "table": <table[^>]*> .*? </table>
\* what = "tr"   : <tr[^>]*> .*? </tr>
\* what = "cell" : <t[hd][^>]*> .*? </t[hd]>
\* what = "cell1": <(t[hd])([^>]*)> .*? </\1>   (closing tag equals the opening one)
IsOpenTok(t, what) ==
    /\ t.k = "open"
    /\ CASE what = "table" -> t.n = "table"
         [] what = "tr" -> t.n = "tr"
         [] OTHER -> t.n \in {"th", "td"}

IsCloseTok(t, what, o) ==
    /\ t.k = "close"
    /\ CASE what = "table" -> t.n = "table"
         [] what = "tr" -> t.n = "tr"
         [] what = "cell" -> t.n \in {"th", "td"}
         [] OTHER -> t.n = o.n

FirstClose(s, i, what) ==
    LET js == {j \in (i+1)..Len(s) : IsCloseTok(s[j], what, s[i])}
    IN IF js = {} THEN 0 ELSE CHOOSE j \in js : \A j2 \in js : j <= j2

(* re.finditer: the spans <<first, last>> of the matches, left to right    *)
RECURSIVE FindFrom(_, _, _)
FindFrom(s, i, what) ==
    LET js == {j \in i..Len(s) : IsOpenTok(s[j], what) /\ FirstClose(s, j, what) # 0}
    IN IF js = {} THEN <<>>
       ELSE LET j == CHOOSE j \in js : \A j2 \in js : j <= j2
            IN <<(<<j, FirstClose(s, j, what)>>)>> \o FindFrom(s, FirstClose(s, j, what) + 1, what)

FindIter(s, what) == FindFrom(s, 1, what)
Group0(s, span) == Slice(s, span[1], span[2])
Inner(s, span) == Slice(s, span[1] + 1, span[2] - 1)

\* a test that looks for colspan only
HasWord_ColspanOnly(s, w) ==
    \E i \in 1..Len(s) :
        \/ s[i].k = "open" /\ w = "colspan" /\ s[i].a.colspan > 0
        \/ s[i].k = "text" /\ s[i].n = w /\ w = "colspan"

(* 'colspan' in row_html.lower(), 'rowspan' in row_html.lower(): the word  *)
(* is found in an attribute or anywhere in the text of the row.            *)
HasWord(s, w) ==
    \E i \in 1..Len(s) :
        \/ s[i].k = "open" /\ w = "colspan" /\ s[i].a.colspan > 0
        \/ s[i].k = "open" /\ w = "rowspan" /\ s[i].a.rowspan > 0
        \/ s[i].k = "text" /\ s[i].n = w

\* re.search(r'colspan="(\d+)"', text): the first colspan attribute, 0 if there is none
SearchColspan(s) ==
    LET is == {i \in 1..Len(s) : s[i].k = "open" /\ s[i].a.colspan > 0}
    IN IF is = {} THEN 0 ELSE s[CHOOSE i \in is : \A i2 \in is : i <= i2].a.colspan

(* str.replace(old, new, 1) where old is a single tag                      *)
ReplaceFirstTok(s, old, new) ==
    LET is == {i \in 1..Len(s) : s[i] = old}
    IN IF is = {} THEN s
       ELSE LET i == CHOOSE x \in is : \A y \in is : x <= y
            IN [s EXCEPT ![i] = new]

\* a splice that loses the first token after the span
Splice_DropsAfter(s, span, new) == Slice(s, 1, span[1] - 1) \o new \o From(s, span[2] + 2)

\* s[:start] + new + s[end:], the span being a match's <<first, last>>
Splice(s, span, new) == Slice(s, 1, span[1] - 1) \o new \o From(s, span[2] + 1)

(* ------------------------- insert_column ------------------------------- *)
\* a row counts as merged only when it has a single cell
InsertIsMerge_SingleCell(row_content, cells) ==
    row_content[cells[1][1]].a.colspan > 0 /\ Len(cells) < 2

\* colspan_match and len(cells) <= 2, on the first cell's opening tag
InsertIsMerge(row_content, cells) ==
    row_content[cells[1][1]].a.colspan > 0 /\ Len(cells) <= 2

\* the reference cell is the one at the insertion position, not the one before it
NewColumnCell_RefAtPosition(cells, row_content, op) ==
    LET insert_pos == Min(op.p, Len(cells))
        first_cell_tag == row_content[cells[1][1]]
        ref_cell_tag == IF insert_pos > 0
                        THEN row_content[cells[Min(insert_pos + 1, Len(cells))][1]]
                        ELSE first_cell_tag
    IN IF first_cell_tag.n = "th"
       THEN <<Open("th", [NoAttr EXCEPT !.style =
                    IF op.hstyle # "" THEN op.hstyle ELSE ref_cell_tag.a.style])>>
            \o op.colname \o <<Close("th")>>
       ELSE <<Open("td", Styled(ref_cell_tag.a.style, ref_cell_tag.a.class, ref_cell_tag.a.hl))>>
            \o op.dflt \o <<Close("td")>>

\* the new cell built by insert_column.process_row for a non-merge row
NewColumnCell(cells, row_content, op) ==
    LET insert_pos == Min(op.p, Len(cells))
        first_cell_tag == row_content[cells[1][1]]
        ref_cell_tag == IF insert_pos > 0 THEN row_content[cells[insert_pos][1]]
                        ELSE first_cell_tag
    IN IF first_cell_tag.n = "th"
       THEN <<Open("th", [NoAttr EXCEPT !.style =
                    IF op.hstyle # "" THEN op.hstyle ELSE ref_cell_tag.a.style])>>
            \o op.colname \o <<Close("th")>>
       ELSE <<Open("td", Styled(ref_cell_tag.a.style, ref_cell_tag.a.class, ref_cell_tag.a.hl))>>
            \o op.dflt \o <<Close("td")>>

\* cells[insert_pos] raises IndexError for a position below -len(cells)
InsertRowRaises(row, op) ==
    LET row_content == Inner(row, <<1, Len(row)>>)
        cells == FindIter(row_content, "cell")
        insert_pos == Min(op.p, Len(cells))
    IN /\ cells # <<>>
       /\ ~InsertIsMerge(row_content, cells)
       /\ insert_pos < 0
       /\ ~PyInRange(cells, insert_pos)

InsertProcessRow(row, op) ==
    LET row_tag == row[1]
        row_content == Inner(row, <<1, Len(row)>>)
        row_end == row[Len(row)]
        cells == FindIter(row_content, "cell")
    IN IF cells = <<>> THEN row
       ELSE LET first_cell_tag == row_content[cells[1][1]]
                old_colspan == first_cell_tag.a.colspan
            IN IF InsertIsMerge(row_content, cells)
               THEN <<row_tag>>
                    \o ReplaceFirstTok(row_content, first_cell_tag,
                           [first_cell_tag EXCEPT !.a.colspan = old_colspan + 1])
                    \o <<row_end>>
               ELSE LET insert_pos == Min(op.p, Len(cells))
                        new_cell == NewColumnCell(cells, row_content, op)
                        insert_point == cells[PyPos(cells, insert_pos)][1]
                        new_row_content ==
                            IF insert_pos = 0 THEN new_cell \o row_content
                            ELSE IF insert_pos >= Len(cells) THEN row_content \o new_cell
                            ELSE Slice(row_content, 1, insert_point - 1) \o new_cell
                                 \o From(row_content, insert_point)
                    IN <<row_tag>> \o new_row_content \o <<row_end>>

(* ------------------------- delete_column ------------------------------- *)
\* first_cell.replace('colspan="old"', 'colspan="old-1"')
ReplaceColspan(s, old, new) ==
    [i \in 1..Len(s) |->
        IF s[i].k = "open" /\ s[i].a.colspan = old
        THEN [s[i] EXCEPT !.a.colspan = new] ELSE s[i]]

\* colspan_match and len(cells) <= 2, on the whole first cell
DeleteIsMerge(row_content, cells) ==
    SearchColspan(Group0(row_content, cells[1])) > 0 /\ Len(cells) <= 2

DeleteRowRaises(row, op) ==
    LET row_content == Inner(row, <<1, Len(row)>>)
        cells == FindIter(row_content, "cell")
    IN /\ cells # <<>>
       /\ op.p < Len(cells)
       /\ ~DeleteIsMerge(row_content, cells)
       /\ ~PyInRange(cells, op.p)

DeleteProcessRow(row, op) ==
    LET row_tag == row[1]
        row_content == Inner(row, <<1, Len(row)>>)
        row_end == row[Len(row)]
        cells == FindIter(row_content, "cell")
    IN IF cells = <<>> \/ op.p >= Len(cells) THEN row
       ELSE LET first_cell == Group0(row_content, cells[1])
                old_colspan == SearchColspan(first_cell)
            IN IF DeleteIsMerge(row_content, cells)
               THEN IF old_colspan > 1
                    THEN <<row_tag>>
                         \o Splice(row_content, cells[1],
                                   ReplaceColspan(first_cell, old_colspan, old_colspan - 1))
                         \o <<row_end>>
                    ELSE row
               ELSE <<row_tag>> \o Splice(row_content, cells[PyPos(cells, op.p)], <<>>)
                    \o <<row_end>>

ProcessRow(row, op) ==
    IF op.name = "insert_column" THEN InsertProcessRow(row, op) ELSE DeleteProcessRow(row, op)

\* re.sub(row_pattern, process_row, table_content)
RECURSIVE SubRowsFrom(_, _, _, _, _)
SubRowsFrom(content, spans, k, pos, op) ==
    IF k > Len(spans) THEN From(content, pos)
    ELSE Slice(content, pos, spans[k][1] - 1)
         \o ProcessRow(Group0(content, spans[k]), op)
         \o SubRowsFrom(content, spans, k + 1, spans[k][2] + 1, op)

SubRows(content, op) == SubRowsFrom(content, FindIter(content, "tr"), 1, 1, op)

\* the document insert_column / delete_column hand to update_page_html
ColumnEditHtml(html_content, op) ==
    LET tables == FindIter(html_content, "table")
        target_table == tables[PyPos(tables, op.t)]
        table_start == html_content[target_table[1]]
        table_content == Inner(html_content, target_table)
        table_end == html_content[target_table[2]]
        new_table == <<table_start>> \o SubRows(table_content, op) \o <<table_end>>
    IN Splice(html_content, target_table, new_table)

ColumnEditRaises(html_content, op) ==
    LET tables == FindIter(html_content, "table")
    IN \/ ~PyInRange(tables, op.t)
       \/ LET table_content == Inner(html_content, tables[PyPos(tables, op.t)])
              rows == FindIter(table_content, "tr")
          IN \E k \in 1..Len(rows) :
                IF op.name = "insert_column"
                THEN InsertRowRaises(Group0(table_content, rows[k]), op)
                ELSE DeleteRowRaises(Group0(table_content, rows[k]), op)

(* ---------------------- _process_cell_content --------------------------- *)
\* filename.startswith('http')
IsHttp(v) == v \in {"http://u/i.png"}

AttachmentImage(f) == <<O("ac:image"), Void("ri:attachment", f), Close("ac:image")>>

\* [image:f], ![alt](target), **bold**, __bold__, *italic*
CellStage1(t) ==
    CASE t.k = "bimage" -> AttachmentImage(t.n)
      [] t.k = "mdimage" -> IF IsHttp(t.v) THEN <<Void("img", t.v)>> ELSE AttachmentImage(t.v)
      [] t.k = "bold" -> <<O("strong"), Txt(t.n), Close("strong")>>
      [] t.k = "em" -> <<O("em"), Txt(t.n), Close("em")>>
      [] OTHER -> <<t>>

\* `code` and [text](url), only reached when the content does not start with a tag
CellStage2(t) ==
    CASE t.k = "code" -> <<O("code"), Txt(t.n), Close("code")>>
      [] t.k = "link" -> <<OpenV("a", t.v), Txt(t.n), Close("a")>>
      [] OTHER -> <<t>>

RECURSIVE MapStage1(_)
MapStage1(s) == IF s = <<>> THEN <<>> ELSE CellStage1(Head(s)) \o MapStage1(Tail(s))
RECURSIVE MapStage2(_)
MapStage2(s) == IF s = <<>> THEN <<>> ELSE CellStage2(Head(s)) \o MapStage2(Tail(s))

\* processed.strip().startswith('<')
StartsWithTag(s) ==
    LET is == {i \in 1..Len(s) : ~(s[i].k = "text" /\ s[i].n = " ")}
    IN is # {} /\ IsTag(s[CHOOSE i \in is : \A j \in is : i <= j])

ProcessCellContent(content) ==
    LET processed == MapStage1(content)
    IN IF StartsWithTag(processed) THEN processed ELSE MapStage2(processed)

(* ------------------------- update_table_cell --------------------------- *)
\* 'colspan' in row_html.lower() or 'rowspan' in row_html.lower()
CellRowRefused(row_html) == HasWord(row_html, "colspan") \/ HasWord(row_html, "rowspan")

\* a cell rebuilt without its attributes
NewCell_NoAttrs(tag_attrs, final_content) ==
    <<O(tag_attrs.n)>> \o final_content \o <<Close(tag_attrs.n)>>

\* f'<{tag}{attrs}>{final_content}</{tag}>'
NewCell(tag_attrs, final_content) == <<tag_attrs>> \o final_content \o <<Close(tag_attrs.n)>>

Fail(err) == [st |-> "fail", err |-> err, html |-> <<>>]
Raise == [st |-> "raise", err |-> "IndexError", html |-> <<>>]
Write(h) == [st |-> "write", err |-> "", html |-> h]

UpdateTableCell(html_content, op) ==
    LET tables == FindIter(html_content, "table")
    IN IF op.t >= Len(tables) THEN Fail("OutOfRange")
       ELSE IF ~PyInRange(tables, op.t) THEN Raise
       ELSE
       LET table_match == tables[PyPos(tables, op.t)]
           table_html == Group0(html_content, table_match)
           rows == FindIter(table_html, "tr")
       IN IF op.r >= Len(rows) THEN Fail("OutOfRange")
          ELSE IF ~PyInRange(rows, op.r) THEN Raise
          ELSE
          LET row_match == rows[PyPos(rows, op.r)]
              row_html == Group0(table_html, row_match)
              cells == FindIter(row_html, "cell1")
          IN IF CellRowRefused(row_html)
             THEN Fail("Unsupported")
             ELSE IF op.c >= Len(cells) THEN Fail("OutOfRange")
             ELSE IF ~PyInRange(cells, op.c) THEN Raise
             ELSE
             LET cell_match == cells[PyPos(cells, op.c)]
                 tag_attrs == row_html[cell_match[1]]
                 old_content == Inner(row_html, cell_match)
                 new_content == ProcessCellContent(op.content)
                 final_content == IF op.append THEN old_content \o new_content
                                  ELSE new_content
                 new_cell == NewCell(tag_attrs, final_content)
                 new_row_html == Splice(row_html, cell_match, new_cell)
                 new_table_html == Splice(table_html, row_match, new_row_html)
             IN Write(Splice(html_content, table_match, new_table_html))
(* ------------------------- insert_table_row ---------------------------- *)
\* every new cell is a td, whatever is_header says
RECURSIVE RowCells_AlwaysTd(_, _)
RowCells_AlwaysTd(values, tag) ==
    IF values = <<>> THEN <<>>
    ELSE <<O("td")>> \o ProcessCellContent(Head(values)) \o <<Close("td")>>
         \o RowCells_AlwaysTd(Tail(values), tag)

RECURSIVE RowCells(_, _)
RowCells(values, tag) ==
    IF values = <<>> THEN <<>>
    ELSE <<O(tag)>> \o ProcessCellContent(Head(values)) \o <<Close(tag)>>
         \o RowCells(Tail(values), tag)

\* re.search(r'<tbody[^>]*>', table_html): position of the first tbody tag, 0 if none
SearchTbody(s) ==
    LET is == {i \in 1..Len(s) : s[i].k = "open" /\ s[i].n = "tbody"}
    IN IF is = {} THEN 0 ELSE CHOOSE i \in is : \A j \in is : i <= j

InsertTableRow(html_content, op) ==
    LET tables == FindIter(html_content, "table")
    IN IF op.t >= Len(tables) THEN Fail("OutOfRange")
       ELSE IF ~PyInRange(tables, op.t) THEN Raise
       ELSE
       LET table_match == tables[PyPos(tables, op.t)]
           table_html == Group0(html_content, table_match)
           rows == FindIter(table_html, "tr")
           tag == IF op.is_header THEN "th" ELSE "td"
           new_row == <<O("tr")>> \o RowCells(op.values, tag) \o <<Close("tr")>>
       IN IF op.r > Len(rows) THEN Fail("OutOfRange")
          ELSE IF op.r # 0 /\ op.r < Len(rows) /\ ~PyInRange(rows, op.r - 1) THEN Raise
          ELSE
          \* insert_pos: the number of tokens of table_html before the new row
          LET insert_pos ==
                IF op.r = 0
                THEN IF rows # <<>> THEN rows[1][1] - 1
                     ELSE IF SearchTbody(table_html) # 0 THEN SearchTbody(table_html)
                     ELSE 1
                ELSE IF op.r >= Len(rows) THEN rows[Len(rows)][2]
                ELSE rows[PyPos(rows, op.r - 1)][2]
              new_table_html == Slice(table_html, 1, insert_pos) \o new_row
                                \o From(table_html, insert_pos + 1)
          IN Write(Splice(html_content, table_match, new_table_html))

(* ------------------------- delete_table_row ---------------------------- *)
\* no test for rowspan
RowRefused_Never(row_html) == FALSE

\* 'rowspan' in row_html.lower()
RowRefused(row_html) == HasWord(row_html, "rowspan")

\* delete_table_row with the row bound checked by > instead of >=
DeleteTableRow_OffByOne(html_content, op) ==
    LET tables == FindIter(html_content, "table")
    IN IF op.t >= Len(tables) THEN Fail("OutOfRange")
       ELSE IF ~PyInRange(tables, op.t) THEN Raise
       ELSE
       LET table_match == tables[PyPos(tables, op.t)]
           table_html == Group0(html_content, table_match)
           rows == FindIter(table_html, "tr")
       IN IF op.r > Len(rows) THEN Fail("OutOfRange")
          ELSE IF ~PyInRange(rows, op.r) THEN Raise
          ELSE
          LET row_match == rows[PyPos(rows, op.r)]
              row_html == Group0(table_html, row_match)
              new_table_html == Splice(table_html, row_match, <<>>)
          IN IF RowRefused(row_html) THEN Fail("Unsupported")
             ELSE Write(Splice(html_content, table_match, new_table_html))

DeleteTableRow(html_content, op) ==
    LET tables == FindIter(html_content, "table")
    IN IF op.t >= Len(tables) THEN Fail("OutOfRange")
       ELSE IF ~PyInRange(tables, op.t) THEN Raise
       ELSE
       LET table_match == tables[PyPos(tables, op.t)]
           table_html == Group0(html_content, table_match)
           rows == FindIter(table_html, "tr")
       IN IF op.r >= Len(rows) THEN Fail("OutOfRange")
          ELSE IF ~PyInRange(rows, op.r) THEN Raise
          ELSE
          LET row_match == rows[PyPos(rows, op.r)]
              row_html == Group0(table_html, row_match)
              new_table_html == Splice(table_html, row_match, <<>>)
          IN IF RowRefused(row_html) THEN Fail("Unsupported")
             ELSE Write(Splice(html_content, table_match, new_table_html))

(* ------------------- insert_column / delete_column --------------------- *)
ColumnEdit(html_content, op) ==
    LET tables == FindIter(html_content, "table")
    IN IF op.t >= Len(tables) THEN Fail("OutOfRange")
       ELSE IF ColumnEditRaises(html_content, op) THEN Raise
       ELSE Write(ColumnEditHtml(html_content, op))

(* ----------------------- markdown_to_confluence ------------------------ *)
(* A Markdown text is a sequence of lines.  A line carries what the        *)
(* compiler's tests read off it: kind is "fence" (lang: the text after the *)
(* backticks), "row" (cells), "sep" (a |---|---| row), "blank", "ul",      *)
(* "ol", "h" (lvl), "quote" or "p"; body is the text after the marker, a   *)
(* sequence of inline tokens; src names the raw text of the line.          *)
Line(kind, lvl, lang, src, cells, body) ==
    [kind |-> kind, lvl |-> lvl, lang |-> lang, src |-> src, cells |-> cells, body |-> body]

\* html.escape
Escape(t) ==
    IF t.k # "text" THEN t
    ELSE CASE t.n = "<" -> Txt("&lt;")
           [] t.n = ">" -> Txt("&gt;")
           [] t.n = "&" -> Txt("&amp;")
           [] t.n = "<b>" -> Txt("&lt;b&gt;")
           [] t.n = "&lt;" -> Txt("&amp;lt;")
           [] t.n = "&amp;lt;" -> Txt("&amp;amp;lt;")
           [] t.n = "&lt;b&gt;" -> Txt("&amp;lt;b&amp;gt;")
           [] OTHER -> t

\* _process_inline_formats, one inline span
InlineFormat(t) ==
    CASE t.k = "mdimage" -> <<O("ac:image"), Void("ri:url", t.v), Close("ac:image")>>
      [] t.k = "link" -> <<OpenV("a", t.v), Txt(t.n), Close("a")>>
      [] t.k = "bold" -> <<O("strong"), Txt(t.n), Close("strong")>>
      [] t.k = "em" -> <<O("em"), Txt(t.n), Close("em")>>
      [] t.k = "code" -> <<O("code"), Txt(t.n), Close("code")>>
      [] OTHER -> <<t>>

RECURSIVE ProcessInlineFormats(_)
ProcessInlineFormats(s) ==
    IF s = <<>> THEN <<>> ELSE InlineFormat(Escape(Head(s))) \o ProcessInlineFormats(Tail(s))
\* mutant of TableRowCells: the cells of every row are td cells
RECURSIVE TableRowCells_AlwaysTd(_, _)
TableRowCells_AlwaysTd(cells, tag) ==
    IF cells = <<>> THEN <<>>
    ELSE <<O("td")>> \o ProcessInlineFormats(Head(cells)) \o <<Close("td")>>
         \o TableRowCells_AlwaysTd(Tail(cells), tag)

RECURSIVE TableRowCells(_, _)
TableRowCells(cells, tag) ==
    IF cells = <<>> THEN <<>>
    ELSE <<O(tag)>> \o ProcessInlineFormats(Head(cells)) \o <<Close(tag)>>
         \o TableRowCells(Tail(cells), tag)

RECURSIVE JoinLines(_)
JoinLines(ls) ==
    IF ls = <<>> THEN <<>>
    ELSE IF Len(ls) = 1 THEN ls[1]
    ELSE ls[1] \o <<NL>> \o JoinLines(Tail(ls))

RECURSIVE RawLines(_)
RawLines(ls) ==
    IF ls = <<>> THEN <<>>
    ELSE IF Len(ls) = 1 THEN <<Md("raw", ls[1].src, "")>>
    ELSE <<Md("raw", ls[1].src, ""), NL>> \o RawLines(Tail(ls))
\* mutant of CodeMacro: a code macro whatever the language
CodeMacro_AlwaysCode(code_lang, code_content) ==
    <<OpenV("ac:structured-macro", "code")>>
    \o (IF code_lang # ""
        THEN <<OpenV("ac:parameter", "language"), Txt(code_lang), Close("ac:parameter")>>
        ELSE <<>>)
    \o <<O("ac:plain-text-body"), Md("cdata", "[", "")>> \o RawLines(code_content)
    \o <<Md("cdata", "]", ""), Close("ac:plain-text-body"), Close("ac:structured-macro")>>

\* the macro emitted by a closing fence
CodeMacro(code_lang, code_content) ==
    LET body == <<O("ac:plain-text-body"), Md("cdata", "[", "")>> \o RawLines(code_content)
                \o <<Md("cdata", "]", ""), Close("ac:plain-text-body"),
                     Close("ac:structured-macro")>>
    IN IF code_lang = "mermaid"
       THEN <<OpenV("ac:structured-macro", "mermaid-macro")>> \o body
       ELSE IF code_lang \in {"plantuml", "uml", "puml"}
       THEN <<OpenV("ac:structured-macro", "plantuml")>> \o body
       ELSE <<OpenV("ac:structured-macro", "code")>>
            \o (IF code_lang # ""
                THEN <<OpenV("ac:parameter", "language"), Txt(code_lang), Close("ac:parameter")>>
                ELSE <<>>)
            \o body

MdInit ==
    [in_code_block |-> FALSE, in_table |-> FALSE, in_list |-> FALSE, list_type |-> "",
     code_lang |-> "", code_content |-> <<>>, html_lines |-> <<>>]

\* mutant of MdLine: a list of the other kind is opened without closing the open one
MdLine_KeepsOtherList(st, line) ==
    IF line.kind = "fence"
    THEN IF ~st.in_code_block
         THEN [st EXCEPT !.in_code_block = TRUE, !.code_lang = line.lang, !.code_content = <<>>]
         ELSE [st EXCEPT !.in_code_block = FALSE, !.code_lang = "",
                         !.html_lines = Append(@, CodeMacro(st.code_lang, st.code_content))]
    ELSE IF st.in_code_block
    THEN [st EXCEPT !.code_content = Append(@, line)]
    ELSE
    LET is_item == line.kind \in {"ul", "ol"}
        s1 == IF st.in_list /\ ~is_item
              THEN [st EXCEPT !.html_lines = Append(@, <<Close(st.list_type)>>),
                              !.in_list = FALSE, !.list_type = ""]
              ELSE st
    IN IF line.kind = "sep" THEN s1
       ELSE IF line.kind = "row"
       THEN IF ~s1.in_table
            THEN [s1 EXCEPT !.in_table = TRUE,
                     !.html_lines = @ \o << <<O("table"), O("tbody")>>,
                         <<O("tr")>> \o TableRowCells(line.cells, "th") \o <<Close("tr")>> >>]
            ELSE [s1 EXCEPT
                     !.html_lines = Append(@,
                         <<O("tr")>> \o TableRowCells(line.cells, "td") \o <<Close("tr")>>)]
       ELSE
       LET s2 == IF s1.in_table
                 THEN [s1 EXCEPT !.in_table = FALSE,
                          !.html_lines = Append(@, <<Close("tbody"), Close("table")>>)]
                 ELSE s1
           text == ProcessInlineFormats(line.body)
           hn == CASE line.lvl = 1 -> "h1" [] line.lvl = 2 -> "h2" [] line.lvl = 3 -> "h3"
                   [] line.lvl = 4 -> "h4" [] line.lvl = 5 -> "h5" [] OTHER -> "h6"
       IN CASE line.kind = "blank" -> s2
            [] line.kind = "h" ->
                 [s2 EXCEPT !.html_lines = Append(@, <<O(hn)>> \o text \o <<Close(hn)>>)]
            [] line.kind = "quote" ->
                 [s2 EXCEPT !.html_lines = Append(@, <<O("blockquote"), O("p")>> \o text
                                               \o <<Close("p"), Close("blockquote")>>)]
            [] is_item ->
                 LET s3 == IF ~s2.in_list \/ s2.list_type # line.kind
                           THEN [s2 EXCEPT
                                   !.html_lines = @ \o << <<O(line.kind)>> >>,
                                   !.in_list = TRUE, !.list_type = line.kind]
                           ELSE s2
                 IN [s3 EXCEPT !.html_lines = Append(@, <<O("li")>> \o text \o <<Close("li")>>)]
            [] OTHER ->
                 [s2 EXCEPT !.html_lines = Append(@, <<O("p")>> \o text \o <<Close("p")>>)]

\* one iteration of the loop over the lines
MdLine(st, line) ==
    IF line.kind = "fence"
    THEN IF ~st.in_code_block
         THEN [st EXCEPT !.in_code_block = TRUE, !.code_lang = line.lang, !.code_content = <<>>]
         ELSE [st EXCEPT !.in_code_block = FALSE, !.code_lang = "",
                         !.html_lines = Append(@, CodeMacro(st.code_lang, st.code_content))]
    ELSE IF st.in_code_block
    THEN [st EXCEPT !.code_content = Append(@, line)]
    ELSE
    LET is_item == line.kind \in {"ul", "ol"}
        s1 == IF st.in_list /\ ~is_item
              THEN [st EXCEPT !.html_lines = Append(@, <<Close(st.list_type)>>),
                              !.in_list = FALSE, !.list_type = ""]
              ELSE st
    IN IF line.kind = "sep" THEN s1
       ELSE IF line.kind = "row"
       THEN IF ~s1.in_table
            THEN [s1 EXCEPT !.in_table = TRUE,
                     !.html_lines = @ \o << <<O("table"), O("tbody")>>,
                         <<O("tr")>> \o TableRowCells(line.cells, "th") \o <<Close("tr")>> >>]
            ELSE [s1 EXCEPT
                     !.html_lines = Append(@,
                         <<O("tr")>> \o TableRowCells(line.cells, "td") \o <<Close("tr")>>)]
       ELSE
       LET s2 == IF s1.in_table
                 THEN [s1 EXCEPT !.in_table = FALSE,
                          !.html_lines = Append(@, <<Close("tbody"), Close("table")>>)]
                 ELSE s1
           text == ProcessInlineFormats(line.body)
           hn == CASE line.lvl = 1 -> "h1" [] line.lvl = 2 -> "h2" [] line.lvl = 3 -> "h3"
                   [] line.lvl = 4 -> "h4" [] line.lvl = 5 -> "h5" [] OTHER -> "h6"
       IN CASE line.kind = "blank" -> s2
            [] line.kind = "h" ->
                 [s2 EXCEPT !.html_lines = Append(@, <<O(hn)>> \o text \o <<Close(hn)>>)]
            [] line.kind = "quote" ->
                 [s2 EXCEPT !.html_lines = Append(@, <<O("blockquote"), O("p")>> \o text
                                               \o <<Close("p"), Close("blockquote")>>)]
            [] is_item ->
                 LET s3 == IF ~s2.in_list \/ s2.list_type # line.kind
                           THEN [s2 EXCEPT
                                   !.html_lines = (IF s2.in_list
                                                   THEN Append(@, <<Close(s2.list_type)>>)
                                                   ELSE @) \o << <<O(line.kind)>> >>,
                                   !.in_list = TRUE, !.list_type = line.kind]
                           ELSE s2
                 IN [s3 EXCEPT !.html_lines = Append(@, <<O("li")>> \o text \o <<Close("li")>>)]
            [] OTHER ->
                 [s2 EXCEPT !.html_lines = Append(@, <<O("p")>> \o text \o <<Close("p")>>)]
\* mutant of MdEnd: an open list is left open at the end of the input
MdEnd_ListLeftOpen(st) ==
    IF st.in_table
    THEN [st EXCEPT !.html_lines = Append(@, <<Close("tbody"), Close("table")>>)]
    ELSE st

\* after the loop: close what the flags say is open
MdEnd(st) ==
    LET s1 == IF st.in_table
              THEN [st EXCEPT !.html_lines = Append(@, <<Close("tbody"), Close("table")>>)]
              ELSE st
    IN IF s1.in_list
       THEN [s1 EXCEPT !.html_lines = Append(@, <<Close(s1.list_type)>>)]
       ELSE s1

RECURSIVE MdLoop(_, _)
MdLoop(st, lines) == IF lines = <<>> THEN st ELSE MdLoop(MdLine(st, Head(lines)), Tail(lines))

markdown_to_confluence(lines) == JoinLines(MdEnd(MdLoop(MdInit, lines)).html_lines)
(* ------------------------ confluence_to_markdown ----------------------- *)
\* The Markdown text the decompiler builds is a token sequence as well: Txt
\* for text, the marks it writes ("# ", "**", "*", the backquote of inline
\* code written "'", "[", "](", ")", "![](", "- ", "> ", "| ", " | ", " |",
\* "|", "---") included; Md("fence", lang, "") for a line of three backquotes
\* and a language; Md("raw", src, "") for a line of a code body; NL for "\n".
\* The text of a code body and the text between tags are strings of a small
\* closed set; the two substitutions that look inside a string are tables.

\* re.sub(r'<[^>]+>', '', text) on a string
StripTagsText(n) ==
    CASE n = "<b>" -> ""
      [] OTHER -> n

\* html.unescape on a string
UnescapeText(n) ==
    CASE n = "&lt;" -> "<"
      [] n = "&gt;" -> ">"
      [] n = "&amp;" -> "&"
      [] n = "&lt;b&gt;" -> "<b>"
      [] n = "&amp;lt;" -> "&lt;"
      [] n = "&amp;amp;lt;" -> "&amp;lt;"
      [] n = "&amp;lt;b&amp;gt;" -> "&lt;b&gt;"
      [] OTHER -> n

Hashes(name) ==
    CASE name = "h1" -> "# " [] name = "h2" -> "## " [] name = "h3" -> "### "
      [] name = "h4" -> "#### " [] name = "h5" -> "##### " [] OTHER -> "###### "

\* the first closing tag of this name at or after position i (0: none)
CloseAfter(s, i, name) ==
    LET js == {j \in i..Len(s) : s[j] = Close(name)}
    IN IF js = {} THEN 0 ELSE CHOOSE j \in js : \A j2 \in js : j <= j2

\* the opening tag and what follows it up to the first closing tag match the
\* pattern of this element: <strong>, <b>, <em>, <i>, <code> take no
\* attribute, <a> needs an href, <ac:image> needs a <ri:url ri:value=...>
ElemMatches(name, open, inner) ==
    CASE name \in {"strong", "b", "em", "i", "code"} -> open.a = NoAttr /\ open.v = ""
      [] name = "a" -> open.v # ""
      [] name = "ac:image" ->
           \E j \in 1..Len(inner) : inner[j].k = "void" /\ inner[j].n = "ri:url"
      [] OTHER -> TRUE

\* the replacement string of the re.sub for this element
ElemReplacement(name, open, inner) ==
    CASE name \in {"h1", "h2", "h3", "h4", "h5", "h6"} ->
           <<Txt(Hashes(name))>> \o inner \o <<NL>>
      [] name \in {"strong", "b"} -> <<Txt("**")>> \o inner \o <<Txt("**")>>
      [] name \in {"em", "i"} -> <<Txt("*")>> \o inner \o <<Txt("*")>>
      [] name = "code" -> <<Txt("'")>> \o inner \o <<Txt("'")>>
      [] name = "a" -> <<Txt("[")>> \o inner \o <<Txt("]("), Txt(open.v), Txt(")")>>
      [] name = "ac:image" ->
           LET j == CHOOSE j \in 1..Len(inner) :
                        /\ inner[j].k = "void" /\ inner[j].n = "ri:url"
                        /\ \A j2 \in 1..(j - 1) :
                               ~(inner[j2].k = "void" /\ inner[j2].n = "ri:url")
           IN <<Txt("![]("), Txt(inner[j].v), Txt(")")>>
      [] name = "li" -> <<Txt("- ")>> \o inner \o <<NL>>
      [] name = "blockquote" -> <<Txt("> ")>> \o inner \o <<NL>>
      [] OTHER -> inner \o <<NL>>

\* re.sub(r'<name[^>]*>(.*?)</name>', replacement, content, flags=re.DOTALL)
ElemAt(s, j, name) ==
    /\ s[j].k = "open" /\ s[j].n = name /\ CloseAfter(s, j + 1, name) # 0
    /\ ElemMatches(name, s[j], SubSeq(s, j + 1, CloseAfter(s, j + 1, name) - 1))

RECURSIVE SubElemFrom(_, _, _)
SubElemFrom(s, i, name) ==
    LET js == {j \in i..Len(s) : ElemAt(s, j, name)}
    IN IF js = {} THEN SubSeq(s, i, Len(s))
       ELSE LET j == CHOOSE j \in js : \A j2 \in js : j <= j2
                c == CloseAfter(s, j + 1, name)
            IN SubSeq(s, i, j - 1)
               \o ElemReplacement(name, s[j], SubSeq(s, j + 1, c - 1))
               \o SubElemFrom(s, c + 1, name)

SubElem(s, name) == SubElemFrom(s, 1, name)

\* one re.sub after the other; a content that has become empty stays empty
RECURSIVE SubElems(_, _)
SubElems(s, names) ==
    IF names = <<>> \/ s = <<>> THEN s ELSE SubElems(SubElem(s, Head(names)), Tail(names))

\* re.sub(r'<[^>]+>', '', c): the tags go, and what looks like a tag in a text
StripTags(s) ==
    LET IsText(t) == ~IsTag(t)
        kept == SelectSeq(s, IsText)
    IN [n \in 1..Len(kept) |->
           IF kept[n].k \in {"text", "raw"}
           THEN [kept[n] EXCEPT !.n = StripTagsText(kept[n].n)]
           ELSE kept[n]]

\* re.sub(r'</?[uo]l[^>]*>', '', content)
StripListTags(s) ==
    LET NotList(t) == ~(IsTag(t) /\ t.n \in {"ul", "ol"})
    IN SelectSeq(s, NotList)

\* a token that stands for no character at all
IsEmptyTok(t) == t.k \in {"text", "raw"} /\ t.n = ""
DropEmpty(s) ==
    LET NotEmpty(t) == ~IsEmptyTok(t)
    IN SelectSeq(s, NotEmpty)

\* str.strip() of a text whose white space is its newlines
RECURSIVE StripWs(_)
StripWs(s) ==
    IF s = <<>> THEN <<>>
    ELSE IF Head(s) = NL THEN StripWs(Tail(s))
    ELSE IF s[Len(s)] = NL THEN StripWs(SubSeq(s, 1, Len(s) - 1))
    ELSE s

\* ' | '.join(cells) and '|'.join(['---'] * len(cells))
RECURSIVE JoinCells(_, _)
JoinCells(cells, sep) ==
    IF cells = <<>> THEN <<>>
    ELSE IF Len(cells) = 1 THEN cells[1]
    ELSE cells[1] \o <<Txt(sep)>> \o JoinCells(Tail(cells), sep)

\* convert_table, one row: its cells, tags stripped, and the text of the row
TableCellTexts(row) ==
    LET spans == FindIter(row, "cell")
    IN [n \in 1..Len(spans) |-> StripWs(DropEmpty(StripTags(Inner(row, spans[n]))))]

MdRow(cells) == <<Txt("| ")>> \o JoinCells(cells, " | ") \o <<Txt(" |")>>
MdSeparator(cells) ==
    <<Txt("|")>> \o JoinCells([n \in 1..Len(cells) |-> <<Txt("---")>>], "|") \o <<Txt("|")>>

\* convert_table: md_rows, the separator after the first row
RECURSIVE MdRows(_, _, _)
MdRows(table_html, rows, i) ==
    IF i > Len(rows) THEN <<>>
    ELSE LET cells == TableCellTexts(Inner(table_html, rows[i]))
         IN <<MdRow(cells)>> \o (IF i = 1 THEN <<MdSeparator(cells)>> ELSE <<>>)
            \o MdRows(table_html, rows, i + 1)

convert_table(table_html) ==
    JoinLines(MdRows(table_html, FindIter(table_html, "tr"), 1)) \o <<NL>>

\* re.sub(r'<table[^>]*>.*?</table>', convert_table, content, flags=re.DOTALL)
RECURSIVE SubTablesFrom(_, _, _, _)
SubTablesFrom(content, spans, k, pos) ==
    IF k > Len(spans) THEN From(content, pos)
    ELSE Slice(content, pos, spans[k][1] - 1)
         \o convert_table(Group0(content, spans[k]))
         \o SubTablesFrom(content, spans, k + 1, spans[k][2] + 1)

SubTables(content) == SubTablesFrom(content, FindIter(content, "table"), 1, 1)

\* the macro patterns: <ac:structured-macro ac:name="name"> .*?
\* <ac:plain-text-body><![CDATA[ (.*?) ]]></ac:plain-text-body></ac:structured-macro>
IsBodyStart(s, j) ==
    j + 1 <= Len(s) /\ s[j] = O("ac:plain-text-body") /\ s[j + 1] = Md("cdata", "[", "")
IsBodyEnd(s, k) ==
    /\ k + 2 <= Len(s)
    /\ s[k] = Md("cdata", "]", "")
    /\ s[k + 1] = Close("ac:plain-text-body")
    /\ s[k + 2] = Close("ac:structured-macro")

\* the first position from i on where the body starts, ends (0: none)
FirstBodyStart(s, i) ==
    LET js == {j \in i..Len(s) : IsBodyStart(s, j)}
    IN IF js = {} THEN 0 ELSE CHOOSE j \in js : \A j2 \in js : j <= j2
FirstBodyEnd(s, i) ==
    LET js == {j \in i..Len(s) : IsBodyEnd(s, j)}
    IN IF js = {} THEN 0 ELSE CHOOSE j \in js : \A j2 \in js : j <= j2

\* convert_code: the language parameter found in the match
MacroLang(m) ==
    LET js == {j \in 1..(Len(m) - 1) :
                  m[j] = OpenV("ac:parameter", "language") /\ m[j + 1].k = "text"}
    IN IF js = {} THEN "" ELSE m[(CHOOSE j \in js : \A j2 \in js : j <= j2) + 1].n

\* convert_mermaid, convert_plantuml, convert_code
MacroFence(name, m) ==
    CASE name = "mermaid-macro" -> "mermaid"
      [] name = "plantuml" -> "plantuml"
      [] OTHER -> MacroLang(m)

MacroBodyStart(s, j) == FirstBodyStart(s, j + 1)
MacroBodyEnd(s, j) ==
    IF MacroBodyStart(s, j) = 0 THEN 0 ELSE FirstBodyEnd(s, MacroBodyStart(s, j) + 2)

RECURSIVE SubMacroFrom(_, _, _)
SubMacroFrom(s, i, name) ==
    LET js == {j \in i..Len(s) :
                  s[j] = OpenV("ac:structured-macro", name) /\ MacroBodyEnd(s, j) # 0}
    IN IF js = {} THEN SubSeq(s, i, Len(s))
       ELSE LET j == CHOOSE j \in js : \A j2 \in js : j <= j2
                b == MacroBodyStart(s, j)
                e == MacroBodyEnd(s, j)
            IN SubSeq(s, i, j - 1)
               \o <<Md("fence", MacroFence(name, SubSeq(s, j, e + 2)), ""), NL>>
               \o SubSeq(s, b + 2, e - 1)
               \o <<NL, Md("fence", "", ""), NL>>
               \o SubMacroFrom(s, e + 3, name)

SubMacro(s, name) == SubMacroFrom(s, 1, name)

\* html.unescape(content)
Unescape(s) ==
    [n \in 1..Len(s) |->
        IF s[n].k \in {"text", "raw"} THEN [s[n] EXCEPT !.n = UnescapeText(s[n].n)]
        ELSE s[n]]

\* re.sub(r'\n{3,}', '\n\n', content)
CollapseBlank(s) ==
    LET third == [j \in 1..Len(s) |-> j >= 3 /\ s[j] = NL /\ s[j - 1] = NL /\ s[j - 2] = NL]
        marked == [j \in 1..Len(s) |-> IF third[j] THEN Txt("") ELSE s[j]]
    IN DropEmpty(marked)

\* the content when the table substitution is reached
BeforeTables(html_content) ==
    LET inline == SubElems(html_content,
                      <<"h6", "h5", "h4", "h3", "h2", "h1", "strong", "b", "em", "i",
                        "code", "a", "ac:image", "li">>)
    IN IF inline = <<>> THEN <<>> ELSE SubElem(StripListTags(inline), "blockquote")

\* the three macro substitutions
SubMacros(content) ==
    LET mermaid == SubMacro(content, "mermaid-macro")
    IN IF mermaid = <<>> THEN <<>>
       ELSE LET plantuml == SubMacro(mermaid, "plantuml")
            IN IF plantuml = <<>> THEN <<>> ELSE SubMacro(plantuml, "code")

\* what is left of the tags is removed, the entities are decoded, the blank
\* lines are collapsed and the text is stripped
Cleanup(content) ==
    LET text == DropEmpty(Unescape(StripTags(content)))
    IN IF text = <<>> THEN <<>> ELSE StripWs(CollapseBlank(text))

\* each substitution works on what the one before has left (an empty content
\* stays empty)
confluence_to_markdown(html_content) ==
    LET content == BeforeTables(html_content)
    IN IF content = <<>> THEN <<>>
       ELSE LET tables == SubTables(content)
            IN IF tables = <<>> THEN <<>>
               ELSE LET macros == SubMacros(tables)
                    IN IF macros = <<>> THEN <<>>
                       ELSE LET paras == SubElem(macros, "p")
                            IN IF paras = <<>> THEN <<>> ELSE Cleanup(paras)
(* ------------- a Markdown text as the compiler reads it ---------------- *)
\* content.split('\n')
RECURSIVE SplitNL(_)
SplitNL(s) ==
    LET js == {j \in 1..Len(s) : s[j] = NL}
    IN IF js = {} THEN <<s>>
       ELSE LET j == CHOOSE j \in js : \A j2 \in js : j <= j2
            IN <<SubSeq(s, 1, j - 1)>> \o SplitNL(SubSeq(s, j + 1, Len(s)))

\* the spans _process_inline_formats finds in a text: ![](v), [n](v), **n**,
\* *n*, the inline code; a span is kept as Md(kind, n, v), n being one text
RECURSIVE ParseInline(_)
ParseInline(s) ==
    IF s = <<>> THEN <<>>
    ELSE IF Len(s) >= 3 /\ s[1] = Txt("![](") /\ s[2].k = "text" /\ s[3] = Txt(")")
    THEN <<Md("mdimage", "", s[2].n)>> \o ParseInline(SubSeq(s, 4, Len(s)))
    ELSE IF /\ Len(s) >= 5 /\ s[1] = Txt("[") /\ s[2].k = "text" /\ s[3] = Txt("](")
            /\ s[4].k = "text" /\ s[5] = Txt(")")
    THEN <<Md("link", s[2].n, s[4].n)>> \o ParseInline(SubSeq(s, 6, Len(s)))
    ELSE IF Len(s) >= 3 /\ s[1] = Txt("**") /\ s[2].k = "text" /\ s[3] = Txt("**")
    THEN <<Md("bold", s[2].n, "")>> \o ParseInline(SubSeq(s, 4, Len(s)))
    ELSE IF Len(s) >= 3 /\ s[1] = Txt("*") /\ s[2].k = "text" /\ s[3] = Txt("*")
    THEN <<Md("em", s[2].n, "")>> \o ParseInline(SubSeq(s, 4, Len(s)))
    ELSE IF Len(s) >= 3 /\ s[1] = Txt("'") /\ s[2].k = "text" /\ s[3] = Txt("'")
    THEN <<Md("code", s[2].n, "")>> \o ParseInline(SubSeq(s, 4, Len(s)))
    ELSE <<s[1]>> \o ParseInline(Tail(s))

\* stripped[1:-1].split('|'), each cell stripped
IsBar(t) == t \in {Txt("| "), Txt(" | "), Txt(" |"), Txt("|")}
RECURSIVE SplitBars(_)
SplitBars(s) ==
    LET js == {j \in 1..Len(s) : IsBar(s[j])}
    IN IF js = {} THEN <<s>>
       ELSE LET j == CHOOSE j \in js : \A j2 \in js : j <= j2
            IN <<SubSeq(s, 1, j - 1)>> \o SplitBars(SubSeq(s, j + 1, Len(s)))

\* all(set(c) <= set('-: ') for c in cells)
IsAlignmentCell(c) == \A j \in 1..Len(c) : c[j] \in {Txt("---"), Txt("-"), Txt(":")}

HeadingLevel(t) ==
    CASE t = Txt("# ") -> 1 [] t = Txt("## ") -> 2 [] t = Txt("### ") -> 3
      [] t = Txt("#### ") -> 4 [] t = Txt("##### ") -> 5 [] t = Txt("###### ") -> 6
      [] OTHER -> 0

\* the line the loop of markdown_to_confluence sees in this text of one line;
\* src is kept for a line of a code body only, the one place it is used
LineOfText(toks) ==
    IF toks = <<>> THEN Line("blank", 0, "", "", <<>>, <<>>)
    ELSE IF toks[1].k = "fence" THEN Line("fence", 0, toks[1].n, "", <<>>, <<>>)
    ELSE IF toks[1].k = "raw" THEN Line("p", 0, "", toks[1].n, <<>>, <<Txt(toks[1].n)>>)
    ELSE IF Len(toks) >= 2 /\ IsBar(toks[1]) /\ IsBar(toks[Len(toks)])
    THEN LET cells == SplitBars(SubSeq(toks, 2, Len(toks) - 1))
         IN IF \A n \in 1..Len(cells) : IsAlignmentCell(cells[n])
            THEN Line("sep", 0, "", "", <<>>, <<>>)
            ELSE Line("row", 0, "", "", [n \in 1..Len(cells) |-> ParseInline(cells[n])], <<>>)
    ELSE IF HeadingLevel(toks[1]) > 0
    THEN Line("h", HeadingLevel(toks[1]), "", "", <<>>, ParseInline(Tail(toks)))
    ELSE IF toks[1] = Txt("> ") THEN Line("quote", 0, "", "", <<>>, ParseInline(Tail(toks)))
    ELSE IF toks[1] = Txt("- ") THEN Line("ul", 0, "", "", <<>>, ParseInline(Tail(toks)))
    ELSE Line("p", 0, "", "", <<>>, ParseInline(toks))

\* the lines of a Markdown text
LinesOfText(text) ==
    LET ls == SplitNL(text)
    IN [n \in 1..Len(ls) |-> LineOfText(ls[n])]

(* ------------------------------ edit_page ------------------------------ *)
\* old occurs in s at position i (1-based)
OccursAt(s, old, i) ==
    /\ i >= 1
    /\ i + Len(old) - 1 <= Len(s)
    /\ SubSeq(s, i, i + Len(old) - 1) = old

\* a test that looks for the first tag of old only
Contains_FirstTokenOnly(s, old) == old = <<>> \/ \E i \in 1..Len(s) : s[i] = old[1]

\* old_html in current_html
Contains(s, old) == \E i \in 1..(Len(s) + 1) : OccursAt(s, old, i)

\* str.find(old) + 1: the leftmost position of old in s, 0 if there is none
FindFirst(s, old) ==
    LET is == {i \in 1..(Len(s) + 1) : OccursAt(s, old, i)}
    IN IF is = {} THEN 0 ELSE CHOOSE i \in is : \A j \in is : i <= j

\* a replace of the last occurrence
ReplaceFirst_Last(s, old, new) ==
    LET is == {i \in 1..(Len(s) + 1) : OccursAt(s, old, i)}
        i == CHOOSE x \in is : \A y \in is : y <= x
    IN IF is = {} THEN s ELSE Slice(s, 1, i - 1) \o new \o From(s, i + Len(old))

\* current_html.replace(old_html, new_html, 1)
ReplaceFirst(s, old, new) ==
    LET i == FindFirst(s, old)
    IN IF i = 0 THEN s ELSE Slice(s, 1, i - 1) \o new \o From(s, i + Len(old))

\* new_html is markup (md = FALSE: its text starts with '<', or it is blank) or
\* Markdown (md = TRUE), which is compiled first
NewHtml(new) == IF new.md THEN markdown_to_confluence(new.lines) ELSE new.html

EditPage(current_html, op) ==
    IF ~Contains(current_html, op.old) THEN Fail("NoMatch")
    ELSE Write(ReplaceFirst(current_html, op.old, NewHtml(op.new)))

(* ---------------------------- insert_content --------------------------- *)
\* the two branches the wrong way round
InsertContent_Swapped(current_html, op) ==
    LET new_html == markdown_to_confluence(op.new.lines)
    IN IF op.position = "prepend" THEN Write(current_html \o new_html)
       ELSE Write(new_html \o current_html)

InsertContent(current_html, op) ==
    LET new_html == markdown_to_confluence(op.new.lines)
    IN IF op.position = "prepend" THEN Write(new_html \o current_html)
       ELSE Write(current_html \o new_html)

(* --------------------------- documents and inputs ---------------------- *)
Cell(tag, attr, text) == <<Open(tag, attr), Txt(text), Close(tag)>>
Row(cells) == <<O("tr")>> \o cells \o <<Close("tr")>>
Table(rows) == <<O("table"), O("tbody")>> \o rows \o <<Close("tbody"), Close("table")>>
P(text) == <<O("p"), Txt(text), Close("p")>>

\* header [A, B], row [1, 2], between two equal paragraphs
DocGrid ==
    P("old")
    \o Table(Row(Cell("th", Styled("w1", "", ""), "A") \o Cell("th", NoAttr, "B"))
             \o Row(Cell("td", Styled("s1", "c1", "y"), "1") \o Cell("td", NoAttr, "2")))
    \o P("old")

\* a banner row, a data row, a two-cell row whose first cell has colspan="1"
DocBanner ==
    Table(Row(Cell("th", Colspan(2), "T"))
          \o Row(Cell("td", NoAttr, "1") \o Cell("td", NoAttr, "2"))
          \o Row(Cell("td", Colspan(1), "x") \o Cell("td", NoAttr, "y")))

\* a three-cell row with a colspan in its first cell, a row with a rowspan
DocMerge ==
    P("x")
    \o Table(Row(Cell("td", Colspan(2), "a") \o Cell("td", NoAttr, "b") \o Cell("td", NoAttr, "c"))
             \o Row(Cell("td", Rowspan(2), "r") \o Cell("td", NoAttr, "s")))

\* two tables; an empty row; a cell whose text is the word colspan
DocTwo ==
    Table(Row(<<>>) \o Row(Cell("td", NoAttr, "1")))
    \o P("mid")
    \o <<O("table")>> \o Row(Cell("th", NoAttr, "H")) \o Row(Cell("td", NoAttr, "colspan"))
    \o <<Close("table")>>

\* a table laid out over several lines: newlines between its rows and cells
DocSpaced ==
    <<O("table"), NL>>
    \o Row(<<NL>> \o Cell("th", NoAttr, "A") \o <<NL>> \o Cell("th", Styled("w2", "", ""), "B")
           \o <<NL>>)
    \o <<NL>>
    \o Row(<<NL>> \o Cell("td", NoAttr, "1") \o <<NL>> \o Cell("td", Styled("", "c2", ""), "2")
           \o <<NL>>)
    \o <<NL, Close("table")>>

\* two tables without rows, with and without a tbody
DocEmpty == Table(<<>>) \o <<O("table"), Close("table")>>

DocNone == P("old") \o P("x") \o P("old")

\* what the other writer stores
OtherDoc == P("theirs") \o Table(Row(Cell("td", NoAttr, "9")))

InitDocs == {DocGrid, DocBanner, DocMerge, DocTwo, DocSpaced, DocEmpty, DocNone}

MdSample ==
    << Line("h", 1, "", "# T", <<>>, <<Txt("T")>>),
       Line("blank", 0, "", "", <<>>, <<>>),
       Line("ul", 0, "", "- **a**", <<>>, <<Md("bold", "a", "")>>) >>

NoNew == [md |-> FALSE, html |-> <<>>, lines |-> <<>>]
NewSpans == { [NoNew EXCEPT !.html = P("new")], [NoNew EXCEPT !.md = TRUE, !.lines = MdSample] }
\* present twice or not at all; the same with other whitespace; the empty string
OldSpans == { P("old"), <<O("p"), Txt(" old"), Close("p")>>, <<>> }
\* (content, append) of update_table_cell
CellEdits == { [content |-> <<Txt("v")>>, append |-> TRUE],
               [content |-> <<Md("bold", "b", ""), Md("code", "c", "")>>, append |-> FALSE] }
\* (cell_values, is_header) of insert_table_row
RowInputs == { [values |-> <<>>, is_header |-> FALSE],
               [values |-> << <<Txt("v")>> >>, is_header |-> FALSE],
               [values |-> << <<Txt("H")>>, <<Md("code", "c", "")>> >>, is_header |-> TRUE] }
ColumnName == <<Txt("C")>>
ColumnStyles == { [hstyle |-> "", dflt |-> <<>>], [hstyle |-> "w9", dflt |-> <<Txt("0")>>] }

NoOp == [name |-> "none", t |-> 0, r |-> 0, c |-> 0, p |-> 0, colname |-> <<>>, dflt |-> <<>>,
         hstyle |-> "", content |-> <<>>, append |-> FALSE, values |-> <<>>,
         is_header |-> FALSE, old |-> <<>>, new |-> NoNew, position |-> ""]

(* ------------------------------- state --------------------------------- *)
VARIABLES
    store,       \* the page in the document store: [exists, html, version]
    pc,          \* "idle", "update" (update_page_html about to read), "put",
                 \* "done" (the operation has returned result)
    op,          \* the operation being run, or the last one run
    page_info,   \* what the operation's get_page_html returned: [html, version]
    new_html,    \* the document the operation hands to update_page_html
    upd_version, \* page_info['version'] inside update_page_html
    sent,        \* the PUT requests of the operation: sequence of [html, version]
    result,      \* [st |-> "none" | "ok" | "fail" | "raise", err]
    otherWrites, \* writes of the other client so far
    md_lines,    \* markdown_to_confluence: the lines the loop has consumed
    md_st,       \* markdown_to_confluence: its flags, buffer and html_lines
    md_pc,       \* markdown_to_confluence: "off", "loop", "done" (it has returned)
    md_out,      \* markdown_to_confluence: the string it returned
    rt_pc,       \* round trip: "off", "md" (a Markdown text is at hand), "html" (it
                 \* is compiled); "doc" (a stored document is at hand), "text" (it
                 \* is decompiled)
    rt_lines,    \* round trip: the lines of the Markdown text at hand
    rt_html,     \* round trip: the document markdown_to_confluence returned
    rt_hist,     \* round trip: the texts confluence_to_markdown returned so far
    rt_tables,   \* the calls of convert_table in the last confluence_to_markdown:
                 \* sequence of [table_html, md]
    sq_pc,       \* two calls in a row: "off", "start", "inserted", "deleted"
    sq_doc,      \* two calls in a row: the document stored before the first call
    sq_calls,    \* two calls in a row: the calls made, each [op, st, html], html
                 \* the document stored after the call
    up_pc,       \* upload_attachment: "off", "idle" (the client is in no call),
                 \* "open" (its GET has answered), "post", "finally"
    headers,     \* session.headers: [ct, token]; ct is the Content-Type value, ""
                 \* when the header is absent; token: X-Atlassian-Token is present
    old_ct,      \* upload_attachment: its local old_ct, "" for None
    up_result,   \* what the last upload_attachment ended with: "none", "ok",
                 \* "fail", "raise"
    up_log,      \* the requests sent through the session, each [via, ct, token]
                 \* with the headers it carried
    up_calls     \* the calls of upload_attachment and _request made so far

\* the variables of the editor operations and those of the compiler
edvars == <<store, pc, op, page_info, new_html, upd_version, sent, result, otherWrites>>
mdvars == <<md_lines, md_st, md_pc, md_out>>
rtvars == <<rt_pc, rt_lines, rt_html, rt_hist, rt_tables>>
sqvars == <<sq_pc, sq_doc, sq_calls>>
upvars == <<up_pc, headers, old_ct, up_result, up_log, up_calls>>
vars == <<edvars, mdvars, rtvars, sqvars, upvars>>

\* no compilation is being followed
MdOff == md_lines = <<>> /\ md_st = MdInit /\ md_pc = "off" /\ md_out = <<>>
RtOff ==
    rt_pc = "off" /\ rt_lines = <<>> /\ rt_html = <<>> /\ rt_hist = <<>> /\ rt_tables = <<>>
SqOff == sq_pc = "off" /\ sq_doc = <<>> /\ sq_calls = <<>>
\* __init__: session.headers.update({'Content-Type': 'application/json'})
JsonHeaders == [ct |-> "application/json", token |-> FALSE]
UpOff ==
    /\ up_pc = "off"
    /\ headers = JsonHeaders
    /\ old_ct = ""
    /\ up_result = "none"
    /\ up_log = <<>>
    /\ up_calls = 0

NoResult == [st |-> "none", err |-> ""]

Init ==
    /\ store \in [exists : {TRUE}, html : InitDocs, version : {1}]
                 \cup {[exists |-> FALSE, html |-> <<>>, version |-> 0]}
    /\ pc = "idle"
    /\ op = NoOp
    /\ page_info = [html |-> <<>>, version |-> 0]
    /\ new_html = <<>>
    /\ upd_version = 0
    /\ sent = <<>>
    /\ result = NoResult
    /\ otherWrites = 0
    /\ MdOff
    /\ RtOff
    /\ SqOff
    /\ UpOff

\* the body of an operation up to its call of update_page_html; out is what
\* the operation computes from the document it read
Begin(o, out) ==
    /\ op' = o
    /\ sent' = <<>>
    /\ upd_version' = 0
    /\ UNCHANGED <<store, otherWrites, mdvars, rtvars, sqvars, upvars>>
    /\ IF ~store.exists
       THEN /\ result' = [st |-> "fail", err |-> "NotFound"]
            /\ page_info' = [html |-> <<>>, version |-> 0]
            /\ new_html' = <<>>
            /\ pc' = "done"
       ELSE /\ page_info' = [html |-> store.html, version |-> store.version]
            /\ IF out.st = "write"
               THEN /\ new_html' = out.html
                    /\ result' = NoResult
                    /\ pc' = "update"
               ELSE /\ new_html' = <<>>
                    /\ result' = [st |-> out.st, err |-> out.err]
                    /\ pc' = "done"

insert_column ==
    \E t \in Idx, p \in Idx, cs \in ColumnStyles :
        LET o == [NoOp EXCEPT !.name = "insert_column", !.t = t, !.p = p, !.colname = ColumnName,
                              !.dflt = cs.dflt, !.hstyle = cs.hstyle]
        IN /\ pc = "idle"
           /\ Begin(o, ColumnEdit(store.html, o))

delete_column ==
    \E t \in Idx, p \in Idx :
        LET o == [NoOp EXCEPT !.name = "delete_column", !.t = t, !.p = p]
        IN /\ pc = "idle"
           /\ Begin(o, ColumnEdit(store.html, o))

update_table_cell ==
    \E t \in Idx, r \in Idx, c \in Idx, e \in CellEdits :
        LET o == [NoOp EXCEPT !.name = "update_table_cell", !.t = t, !.r = r, !.c = c,
                              !.content = e.content, !.append = e.append]
        IN /\ pc = "idle"
           /\ Begin(o, UpdateTableCell(store.html, o))

insert_table_row ==
    \E t \in Idx, r \in Idx, i \in RowInputs :
        LET o == [NoOp EXCEPT !.name = "insert_table_row", !.t = t, !.r = r,
                              !.values = i.values, !.is_header = i.is_header]
        IN /\ pc = "idle"
           /\ Begin(o, InsertTableRow(store.html, o))

delete_table_row ==
    \E t \in Idx, r \in Idx :
        LET o == [NoOp EXCEPT !.name = "delete_table_row", !.t = t, !.r = r]
        IN /\ pc = "idle"
           /\ Begin(o, DeleteTableRow(store.html, o))

edit_page ==
    \E old \in OldSpans, new \in NewSpans :
        LET o == [NoOp EXCEPT !.name = "edit_page", !.old = old, !.new = new]
        IN /\ pc = "idle"
           /\ Begin(o, EditPage(store.html, o))

insert_content ==
    \E position \in {"prepend", "append", "start"} :
        LET o == [NoOp EXCEPT !.name = "insert_content", !.position = position,
                              !.new = [NoNew EXCEPT !.md = TRUE, !.lines = MdSample]]
        IN /\ pc = "idle"
           /\ Begin(o, InsertContent(store.html, o))

\* update_page_html, first half: get_page_html
update_page_html_get ==
    /\ pc = "update"
    /\ IF ~store.exists
       THEN /\ result' = [st |-> "fail", err |-> "NotFound"]
            /\ pc' = "done"
            /\ UNCHANGED upd_version
       ELSE /\ upd_version' = store.version
            /\ pc' = "put"
            /\ UNCHANGED result
    /\ UNCHANGED <<store, op, page_info, new_html, sent, otherWrites, mdvars, rtvars, sqvars, upvars>>

\* the store takes a PUT only for an existing page and the next version number
StoreAccepts(version) == store.exists /\ version = store.version + 1
\* update_page_html sending its PUT a second time
update_page_html_put_Twice ==
    /\ pc = "put"
    /\ sent' = sent \o << [html |-> new_html, version |-> upd_version + 1],
                          [html |-> new_html, version |-> upd_version + 1] >>
    /\ \E status_200 \in BOOLEAN :
        /\ status_200 => StoreAccepts(upd_version + 1)
        /\ IF status_200
           THEN /\ store' = [store EXCEPT !.html = new_html, !.version = upd_version + 1]
                /\ result' = [st |-> "ok", err |-> ""]
           ELSE /\ UNCHANGED store
                /\ result' = [st |-> "fail", err |-> "StoreError"]
    /\ pc' = "done"
    /\ UNCHANGED <<op, page_info, new_html, upd_version, otherWrites, mdvars, rtvars, sqvars, upvars>>

\* update_page_html, second half: the PUT and the result made from its status
update_page_html_put ==
    /\ pc = "put"
    /\ sent' = Append(sent, [html |-> new_html, version |-> upd_version + 1])
    /\ \E status_200 \in BOOLEAN :
        /\ status_200 => StoreAccepts(upd_version + 1)
        /\ IF status_200
           THEN /\ store' = [store EXCEPT !.html = new_html, !.version = upd_version + 1]
                /\ result' = [st |-> "ok", err |-> ""]
           ELSE /\ UNCHANGED store
                /\ result' = [st |-> "fail", err |-> "StoreError"]
    /\ pc' = "done"
    /\ UNCHANGED <<op, page_info, new_html, upd_version, otherWrites, mdvars, rtvars, sqvars, upvars>>

\* Another client of the store updates the page while the operation is under
\* way (what it did before is the choice of the initial document).
OtherWriter ==
    /\ pc \in {"update", "put"}
    /\ otherWrites < MaxOtherWrites
    /\ store.exists
    /\ otherWrites' = otherWrites + 1
    /\ store' = [store EXCEPT !.html = OtherDoc, !.version = store.version + 1]
    /\ UNCHANGED <<pc, op, page_info, new_html, upd_version, sent, result, mdvars, rtvars, sqvars, upvars>>

\* another client of the store deletes the page
OtherDelete ==
    /\ pc \in {"update", "put"}
    /\ otherWrites < MaxOtherWrites
    /\ store.exists
    /\ otherWrites' = otherWrites + 1
    /\ store' = [store EXCEPT !.exists = FALSE]
    /\ UNCHANGED <<pc, op, page_info, new_html, upd_version, sent, result, mdvars, rtvars, sqvars, upvars>>

Next ==
    \/ insert_column
    \/ delete_column
    \/ update_table_cell
    \/ insert_table_row
    \/ delete_table_row
    \/ edit_page
    \/ insert_content
    \/ update_page_html_get
    \/ update_page_html_put
    \/ OtherWriter
    \/ OtherDelete

Spec == Init /\ [][Next]_vars

(* ------------------- the compiler, one line at a time ------------------ *)
\* the lines a Markdown text is made of (a fence's three backquotes are written ''')
FenceLines ==
    { Line("fence", 0, "", "'''", <<>>, <<>>),
      Line("fence", 0, "mermaid", "'''mermaid", <<>>, <<>>),
      Line("fence", 0, "puml", "'''puml", <<>>, <<>>),
      Line("fence", 0, "python", "'''Python", <<>>, <<>>) }
MdAlphabet ==
    FenceLines \cup
    { Line("row", 0, "", "| a | **b** |", << <<Txt("a")>>, <<Md("bold", "b", "")>> >>, <<>>),
      Line("sep", 0, "", "|---|---|", <<>>, <<>>),
      Line("blank", 0, "", "", <<>>, <<>>),
      Line("ul", 0, "", "- a", <<>>, <<Txt("a")>>),
      Line("ol", 0, "", "1. b", <<>>, <<Txt("b")>>),
      Line("h", 1, "", "# T", <<>>, <<Txt("T")>>),
      Line("p", 0, "", "x < y", <<>>, <<Txt("x"), Txt("<"), Txt("y")>>) }

\* no editor operation is being followed
EdOff ==
    /\ store = [exists |-> FALSE, html |-> <<>>, version |-> 0]
    /\ pc = "idle"
    /\ op = NoOp
    /\ page_info = [html |-> <<>>, version |-> 0]
    /\ new_html = <<>>
    /\ upd_version = 0
    /\ sent = <<>>
    /\ result = NoResult
    /\ otherWrites = 0

\* markdown_to_confluence is called: its locals before the loop
MdSpecInit ==
    /\ EdOff
    /\ RtOff
    /\ SqOff
    /\ UpOff
    /\ md_lines = <<>>
    /\ md_st = MdInit
    /\ md_pc = "loop"
    /\ md_out = <<>>

\* one iteration of the loop over the lines
compile_line ==
    /\ md_pc = "loop"
    /\ Len(md_lines) < MaxLines
    /\ \E line \in MdAlphabet :
         /\ md_lines' = Append(md_lines, line)
         /\ md_st' = MdLine(md_st, line)
    /\ UNCHANGED <<md_pc, md_out, edvars, rtvars, sqvars, upvars>>

\* the lines are used up (split gives at least one): the code after the loop
compile_return ==
    /\ md_pc = "loop"
    /\ md_lines # <<>>
    /\ md_st' = MdEnd(md_st)
    /\ md_out' = JoinLines(md_st'.html_lines)
    /\ md_pc' = "done"
    /\ UNCHANGED <<md_lines, edvars, rtvars, sqvars, upvars>>

MdNext ==
    \/ compile_line
    \/ compile_return

SpecMd == MdSpecInit /\ [][MdNext]_vars

(* --------------- the round trip: compile, then decompile --------------- *)
\* the lines of the Markdown texts compiled: a heading, paragraphs (plain,
\* with bold, italic, inline code and a link, with a written-out entity), a
\* table row and its alignment row, a blank line, fences with and without a
\* language; between two fences a line is a line of code, src its text
RtAlphabet ==
    { Line("h", 1, "", "# T", <<>>, <<Txt("T")>>),
      Line("p", 0, "", "x < y", <<>>, <<Txt("x "), Txt("<"), Txt(" y")>>),
      Line("p", 0, "", "**b** *c* 'd' [e](u)", <<>>,
           <<Md("bold", "b", ""), Txt(" "), Md("em", "c", ""), Txt(" "), Md("code", "d", ""),
             Txt(" "), Md("link", "e", "u")>>),
      Line("p", 0, "", "&amp;lt;", <<>>, <<Txt("&amp;lt;")>>),
      Line("row", 0, "", "| a | **b** |", << <<Txt("a")>>, <<Md("bold", "b", "")>> >>, <<>>),
      Line("sep", 0, "", "|---|---|", <<>>, <<>>),
      Line("blank", 0, "", "", <<>>, <<>>),
      Line("fence", 0, "html", "'''html", <<>>, <<>>),
      Line("fence", 0, "", "'''", <<>>, <<>>) }

\* every fence that opens a code block names a language, and every block is closed
RECURSIVE FencesWithLanguage(_, _)
FencesWithLanguage(lines, in_code_block) ==
    IF lines = <<>> THEN ~in_code_block
    ELSE IF Head(lines).kind # "fence" THEN FencesWithLanguage(Tail(lines), in_code_block)
    ELSE /\ in_code_block \/ Head(lines).lang # ""
         /\ FencesWithLanguage(Tail(lines), ~in_code_block)

RtInputs ==
    {x \in UNION {[1..n -> RtAlphabet] : n \in 1..MaxRtLines} : FencesWithLanguage(x, FALSE)}

\* a table with a list in a cell and one with two paragraphs in a cell
DocListCell ==
    Table(Row(Cell("th", NoAttr, "H"))
          \o Row(<<O("td"), O("ul"), O("li"), Txt("a"), Close("li"),
                   O("li"), Txt("b"), Close("li"), Close("ul"), Close("td")>>))
DocParaCell ==
    Table(Row(Cell("th", NoAttr, "H") \o Cell("th", NoAttr, "K"))
          \o Row(<<O("td")>> \o P("a") \o P("b") \o <<Close("td")>>
                 \o <<O("td"), O("strong"), Txt("c"), Close("strong"), Close("td")>>))

RtDocs == InitDocs \cup {DocListCell, DocParaCell}

\* a Markdown text to compile or a document to decompile is at hand
RtInit ==
    /\ EdOff
    /\ MdOff
    /\ SqOff
    /\ UpOff
    /\ rt_hist = <<>>
    /\ rt_tables = <<>>
    /\ \/ rt_pc = "md" /\ rt_lines \in RtInputs /\ rt_html = <<>>
       \/ rt_pc = "doc" /\ rt_lines = <<>> /\ rt_html \in RtDocs

\* markdown_to_confluence(text)
compile ==
    /\ rt_pc = "md"
    /\ Len(rt_hist) < MaxTrips
    /\ rt_html' = markdown_to_confluence(rt_lines)
    /\ rt_pc' = "html"
    /\ UNCHANGED <<rt_lines, rt_hist, rt_tables, edvars, mdvars, sqvars, upvars>>

\* the calls of convert_table in confluence_to_markdown(html_content)
ConvertTableCalls(html_content) ==
    LET content == BeforeTables(html_content)
        spans == FindIter(content, "table")
    IN [k \in 1..Len(spans) |->
           [table_html |-> Group0(content, spans[k]),
            md |-> convert_table(Group0(content, spans[k]))]]

\* confluence_to_markdown(html); its result is the next text to compile
decompile ==
    /\ rt_pc \in {"html", "doc"}
    /\ LET text == confluence_to_markdown(rt_html)
       IN /\ rt_hist' = Append(rt_hist, text)
          /\ rt_lines' = LinesOfText(text)
    /\ rt_tables' = ConvertTableCalls(rt_html)
    /\ rt_pc' = (IF rt_pc = "html" THEN "md" ELSE "text")
    /\ UNCHANGED <<rt_html, edvars, mdvars, sqvars, upvars>>

RtNext ==
    \/ compile
    \/ decompile

SpecRt == RtInit /\ [][RtNext]_vars
(* ------------- two calls in a row: an insertion, then a deletion -------- *)
(* One client, no other writer, a store that accepts every write: a call   *)
(* that gets as far as update_page_html leaves its document in the store,  *)
(* any other call leaves the stored document as it was.  The second call   *)
(* is made with the table index and the position of the first.             *)
\* the cell values of the inserted row: those of RowInputs, and a cell whose
\* text is the word rowspan
SeqRowInputs == RowInputs \cup {[values |-> << <<Txt("rowspan")>> >>, is_header |-> FALSE]}

\* what the call leaves in the store, and how it ended
Call(o, html, out) ==
    [op |-> o, st |-> out.st, html |-> IF out.st = "write" THEN out.html ELSE html]

SeqInit ==
    /\ EdOff
    /\ MdOff
    /\ RtOff
    /\ UpOff
    /\ sq_pc = "start"
    /\ sq_doc \in InitDocs
    /\ sq_calls = <<>>

seq_insert_column ==
    /\ sq_pc = "start"
    /\ \E t \in Idx, p \in Idx, cs \in ColumnStyles :
        LET o == [NoOp EXCEPT !.name = "insert_column", !.t = t, !.p = p,
                              !.colname = ColumnName, !.dflt = cs.dflt, !.hstyle = cs.hstyle]
        IN sq_calls' = <<Call(o, sq_doc, ColumnEdit(sq_doc, o))>>
    /\ sq_pc' = "inserted"
    /\ UNCHANGED <<sq_doc, edvars, mdvars, rtvars, upvars>>

seq_delete_column ==
    /\ sq_pc = "inserted"
    /\ sq_calls[1].op.name = "insert_column"
    /\ sq_calls[1].st = "write"
    /\ LET o == [NoOp EXCEPT !.name = "delete_column", !.t = sq_calls[1].op.t,
                             !.p = sq_calls[1].op.p]
       IN sq_calls' = Append(sq_calls, Call(o, sq_calls[1].html, ColumnEdit(sq_calls[1].html, o)))
    /\ sq_pc' = "deleted"
    /\ UNCHANGED <<sq_doc, edvars, mdvars, rtvars, upvars>>

seq_insert_table_row ==
    /\ sq_pc = "start"
    /\ \E t \in Idx, r \in Idx, i \in SeqRowInputs :
        LET o == [NoOp EXCEPT !.name = "insert_table_row", !.t = t, !.r = r,
                              !.values = i.values, !.is_header = i.is_header]
        IN sq_calls' = <<Call(o, sq_doc, InsertTableRow(sq_doc, o))>>
    /\ sq_pc' = "inserted"
    /\ UNCHANGED <<sq_doc, edvars, mdvars, rtvars, upvars>>

seq_delete_table_row ==
    /\ sq_pc = "inserted"
    /\ sq_calls[1].op.name = "insert_table_row"
    /\ sq_calls[1].st = "write"
    /\ LET o == [NoOp EXCEPT !.name = "delete_table_row", !.t = sq_calls[1].op.t,
                             !.r = sq_calls[1].op.r]
       IN sq_calls' = Append(sq_calls,
                             Call(o, sq_calls[1].html, DeleteTableRow(sq_calls[1].html, o)))
    /\ sq_pc' = "deleted"
    /\ UNCHANGED <<sq_doc, edvars, mdvars, rtvars, upvars>>

SeqNext ==
    \/ seq_insert_column
    \/ seq_delete_column
    \/ seq_insert_table_row
    \/ seq_delete_table_row

SpecSeq == SeqInit /\ [][SeqNext]_vars
(* ------------------ upload_attachment and _request ---------------------- *)
(* One client object, its calls one after the other.  A request is written *)
(* to up_log with the session headers it carries.                          *)
Sent(via, url) == [via |-> via, url |-> url, ct |-> headers.ct, token |-> headers.token]

\* old_ct = self.session.headers.pop('Content-Type', None);
\* self.session.headers['X-Atlassian-Token'] = 'nocheck'
UploadHeaders(h) == [h EXCEPT !.ct = "", !.token = TRUE]

\* the finally clause that leaves Content-Type as the try block had it
RestoreHeaders_NoContentType(h, old) == [ct |-> h.ct, token |-> FALSE]

\* the finally clause: if old_ct: headers['Content-Type'] = old_ct;
\* headers.pop('X-Atlassian-Token', None)
RestoreHeaders(h, old) == [ct |-> IF old # "" THEN old ELSE h.ct, token |-> FALSE]

UpInit ==
    /\ EdOff
    /\ MdOff
    /\ RtOff
    /\ SqOff
    /\ up_pc = "idle"
    /\ headers = JsonHeaders
    /\ old_ct = ""
    /\ up_result = "none"
    /\ up_log = <<>>
    /\ up_calls = 0

\* upload_attachment up to the answer of its GET for the attachments of the
\* page; session.get or resp.json() may raise
upload_attachment_get ==
    /\ up_pc = "idle"
    /\ up_calls < MaxCalls
    /\ up_calls' = up_calls + 1
    /\ up_log' = Append(up_log, Sent("get", "attachment"))
    /\ \E answered \in BOOLEAN :
        IF answered
        THEN up_pc' = "open" /\ up_result' = "none"
        ELSE up_pc' = "idle" /\ up_result' = "raise"
    /\ UNCHANGED <<headers, old_ct, edvars, mdvars, rtvars, sqvars>>

\* open(file_path, 'rb'), which may raise, then the change of the headers
upload_attachment_open ==
    /\ up_pc = "open"
    /\ \E opened \in BOOLEAN :
        IF opened
        THEN /\ old_ct' = headers.ct
             /\ headers' = UploadHeaders(headers)
             /\ up_pc' = "post"
             /\ UNCHANGED up_result
        ELSE /\ up_result' = "raise"
             /\ up_pc' = "idle"
             /\ UNCHANGED <<headers, old_ct>>
    /\ UNCHANGED <<up_log, up_calls, edvars, mdvars, rtvars, sqvars>>

\* the try block: the POST to the attachment's data (filename in existing) or
\* to the attachments of the page; status 0 stands for session.post raising
upload_attachment_post ==
    /\ up_pc = "post"
    /\ \E existing \in BOOLEAN :
        up_log' = Append(up_log, Sent("post", IF existing THEN "attachment/data"
                                              ELSE "attachment"))
    /\ \E status \in {0, 200, 201, 400} :
        up_result' = IF status \in {200, 201} THEN "ok"
                     ELSE IF status = 0 THEN "raise" ELSE "fail"
    /\ up_pc' = "finally"
    /\ UNCHANGED <<headers, old_ct, up_calls, edvars, mdvars, rtvars, sqvars>>

\* the finally clause, after which upload_attachment returns or raises
upload_attachment_finally ==
    /\ up_pc = "finally"
    /\ headers' = RestoreHeaders(headers, old_ct)
    /\ up_pc' = "idle"
    /\ UNCHANGED <<old_ct, up_result, up_log, up_calls, edvars, mdvars, rtvars, sqvars>>

\* _request: session.request(method, url, params, data, timeout)
request ==
    /\ up_pc = "idle"
    /\ up_calls < MaxCalls
    /\ up_calls' = up_calls + 1
    /\ up_log' = Append(up_log, Sent("_request", "content"))
    /\ UNCHANGED <<up_pc, headers, old_ct, up_result, edvars, mdvars, rtvars, sqvars>>

UpNext ==
    \/ upload_attachment_get
    \/ upload_attachment_open
    \/ upload_attachment_post
    \/ upload_attachment_finally
    \/ request

SpecUp == UpInit /\ [][UpNext]_vars

TypeOK ==
    /\ pc \in {"idle", "update", "put", "done"}
    /\ result.st \in {"none", "ok", "fail", "raise"}

(* ======================================================================= *)
(* Properties                                                              *)
(* ======================================================================= *)
Structural == {"insert_column", "delete_column", "update_table_cell",
               "insert_table_row", "delete_table_row"}

\* the operation read the page (its get_page_html returned a page)
ReadPage == op.name # "none" /\ page_info.version > 0
\* the document the operation read
ReadDoc == page_info.html
\* the operation passed its checks and handed new_html to update_page_html
Proceeds == ReadPage /\ (pc \in {"update", "put"} \/ result.err \in {"", "StoreError"}
                         \/ (result.err = "NotFound" /\ pc = "done"))
\* the operation has issued its PUT
Wrote == sent # <<>>
Failed(err) == pc = "done" /\ result = [st |-> "fail", err |-> err] /\ sent = <<>>

TablesOf(doc) == FindIter(doc, "table")
\* the rows of a table, each with its tags
RowsOf(table_html) ==
    LET spans == FindIter(table_html, "tr")
    IN [k \in 1..Len(spans) |-> Group0(table_html, spans[k])]
\* the cells of a row, each with its tags
CellsOf(row_html) ==
    LET spans == FindIter(row_html, "cell")
    IN [k \in 1..Len(spans) |-> Group0(row_html, spans[k])]
CellContent(cell) == Slice(cell, 2, Len(cell) - 1)

\* table index t names a table of doc, counted from the start
TableInRange(doc, t) == 0 <= t /\ t < Len(TablesOf(doc))
TableAt(doc, t) == Group0(doc, TablesOf(doc)[t + 1])
RowInRange(doc, t, r) == TableInRange(doc, t) /\ 0 <= r /\ r < Len(RowsOf(TableAt(doc, t)))
RowAt(doc, t, r) == RowsOf(TableAt(doc, t))[r + 1]

\* s without its element at position i (1-based); s with x put before position i
RemoveAt(s, i) == Slice(s, 1, i - 1) \o From(s, i + 1)
InsertAt(s, i, x) == Slice(s, 1, i - 1) \o <<x>> \o From(s, i)

(* C1: whenever a structural editor operation (insert_column,              *)
(* delete_column, update_table_cell, insert_table_row, delete_table_row)   *)
(* writes, the written document equals the document read before the start  *)
(* of the targeted table and after its end, and every other table is      *)
(* unchanged; on success this document is the stored one.                  *)
C1_FrameOutsideTable ==
    (op.name \in Structural /\ Wrote) =>
        LET tables == TablesOf(ReadDoc)
            tpos == PyPos(tables, op.t)
            span == tables[tpos]
            w == sent[1].html
            after == Len(ReadDoc) - span[2]
            wtables == TablesOf(w)
        IN /\ Len(w) >= (span[1] - 1) + after
           /\ Slice(w, 1, span[1] - 1) = Slice(ReadDoc, 1, span[1] - 1)
           /\ From(w, Len(w) - after + 1) = From(ReadDoc, span[2] + 1)
           /\ Len(wtables) = Len(tables)
           /\ \A i \in 1..Len(tables) :
                 i # tpos => Group0(w, wtables[i]) = Group0(ReadDoc, tables[i])
           /\ (result.st = "ok" => store.html = w)

\* insert_column has succeeded on the first of two tables, which is followed by
\* text and by the other table, and has changed the document
C1_Witness ==
    /\ op.name = "insert_column"
    /\ pc = "done"
    /\ result.st = "ok"
    /\ Len(TablesOf(ReadDoc)) = 2
    /\ op.t = 0
    /\ TablesOf(ReadDoc)[1][2] < Len(ReadDoc)
    /\ store.html # ReadDoc

\* the row mentions colspan or rowspan, as an attribute or in its text
MentionsRowspan(row) ==
    \E i \in 1..Len(row) : \/ row[i].k = "open" /\ row[i].a.rowspan > 0
                           \/ row[i].k = "text" /\ row[i].n = "rowspan"
MentionsColspan(row) ==
    \E i \in 1..Len(row) : \/ row[i].k = "open" /\ row[i].a.colspan > 0
                           \/ row[i].k = "text" /\ row[i].n = "colspan"
\* a cell of the row has a colspan or rowspan attribute
CarriesSpan(row) ==
    \E i \in 1..Len(row) : /\ row[i].k = "open"
                           /\ row[i].n \in {"th", "td"}
                           /\ (row[i].a.colspan > 0 \/ row[i].a.rowspan > 0)
\* has_merge: the first cell has a colspan attribute and the row has at most 2 cells
IsBanner(row) ==
    /\ CellsOf(row) # <<>>
    /\ CellsOf(row)[1][1].a.colspan > 0
    /\ Len(CellsOf(row)) <= 2
ColumnOps == {"insert_column", "delete_column"}
\* the rows of the targeted table, as read and as handed to update_page_html
ReadRows == RowsOf(TableAt(ReadDoc, op.t))
NewRows == RowsOf(TableAt(new_html, op.t))

IsAt(doc, span, i) ==
    /\ 1 <= i
    /\ i + Len(span) - 1 <= Len(doc)
    /\ \A j \in 1..Len(span) : doc[i + j - 1] = span[j]
Positions(doc, span) == {i \in 1..(Len(doc) + 1) : IsAt(doc, span, i)}
\* the store holds what the operation read
StoreAsRead == store.html = ReadDoc /\ store.version = page_info.version

(* C4: when old_html is not a literal substring of the document edit_page  *)
(* read, it returns the NoMatch failure, issues no write, and the stored   *)
(* document and version are what it read.                                  *)
C4_NoMatch ==
    (op.name = "edit_page" /\ ReadPage /\ Positions(ReadDoc, op.old) = {}) =>
        Failed("NoMatch") /\ StoreAsRead

\* edit_page has refused a fragment that differs from a paragraph of the page
\* only in its whitespace
C4_Witness ==
    /\ op.name = "edit_page"
    /\ op.old = <<O("p"), Txt(" old"), Close("p")>>
    /\ Positions(ReadDoc, P("old")) # {}
    /\ Failed("NoMatch")

(* C5: when old_html occurs in the document, the document edit_page hands  *)
(* to the write is the document read with the first (leftmost) occurrence  *)
(* replaced by the new span (compiled first if it is Markdown); every      *)
(* occurrence after the replaced one is still there, unchanged.            *)
C5_FirstOccurrenceOnly ==
    (op.name = "edit_page" /\ Proceeds) =>
        LET new == NewHtml(op.new)
            n == Len(op.old)
        IN /\ Positions(ReadDoc, op.old) # {}
           /\ \E i \in Positions(ReadDoc, op.old) :
                /\ \A j \in Positions(ReadDoc, op.old) : i <= j
                /\ new_html = Slice(ReadDoc, 1, i - 1) \o new \o From(ReadDoc, i + n)
                /\ \A j \in Positions(ReadDoc, op.old) :
                      j >= i + n => IsAt(new_html, op.old, j + Len(new) - n)
           /\ (Wrote => sent[1].html = new_html)

\* edit_page has succeeded on a page with two occurrences of a non-empty
\* old_html; the stored page has the new span and one occurrence left
C5_Witness ==
    /\ op.name = "edit_page"
    /\ pc = "done"
    /\ result.st = "ok"
    /\ op.old # <<>>
    /\ Cardinality(Positions(ReadDoc, op.old)) = 2
    /\ Cardinality(Positions(store.html, op.old)) = 1
    /\ Positions(store.html, NewHtml(op.new)) # {}

\* a cell of the row has a rowspan attribute
HasRowspanAttr(row) == \E i \in 1..Len(row) : row[i].k = "open" /\ row[i].a.rowspan > 0

C7_UpdateCell ==
    (op.name = "update_table_cell" /\ ReadPage /\ RowInRange(ReadDoc, op.t, op.r)) =>
        LET row == RowAt(ReadDoc, op.t, op.r)
            old == CellsOf(row)
        IN IF MentionsColspan(row) \/ MentionsRowspan(row)
           THEN Failed("Unsupported") /\ StoreAsRead
           ELSE (0 <= op.c /\ op.c < Len(old)) =>
                /\ Proceeds
                /\ Len(NewRows) = Len(ReadRows)
                /\ \A k \in 1..Len(ReadRows) : k # op.r + 1 => NewRows[k] = ReadRows[k]
                /\ LET new == CellsOf(NewRows[op.r + 1])
                       oc == old[op.c + 1]
                   IN /\ Len(new) = Len(old)
                      /\ \A j \in 1..Len(old) : j # op.c + 1 => new[j] = old[j]
                      /\ new[op.c + 1][1] = oc[1]
                      /\ new[op.c + 1][Len(new[op.c + 1])] = oc[Len(oc)]
                      /\ CellContent(new[op.c + 1]) =
                            (IF op.append THEN CellContent(oc) ELSE <<>>)
                            \o ProcessCellContent(op.content)

\* update_table_cell has appended to a cell that has attributes, in a row of
\* two cells
C7_Witness ==
    /\ op.name = "update_table_cell"
    /\ pc = "done"
    /\ result.st = "ok"
    /\ op.append
    /\ RowInRange(ReadDoc, op.t, op.r)
    /\ Len(CellsOf(RowAt(ReadDoc, op.t, op.r))) = 2
    /\ op.c = 0
    /\ CellsOf(RowAt(ReadDoc, op.t, op.r))[1][1].a # NoAttr
    /\ store.html # ReadDoc

\* the colspan attributes of a row's cells, in order (0: none)
ColspansOf(cells) == [j \in 1..Len(cells) |-> cells[j][1].a.colspan]
\* the cell with the colspan attribute of its opening tag set to c
WithColspan(cell, c) == [cell EXCEPT ![1].a.colspan = c]

(* C8 as stated, for positions p >= 0: in every non-merge row with n cells *)
(* insert_column at position p gives n+1 cells, the new one at index       *)
(* min(p, n), the n original cells kept in order; the new cell is a th     *)
(* with column_name if the row's first cell is a th, else a td with        *)
(* default_value and the class/style/highlight of the original cell at     *)
(* index max(min(p, n) - 1, 0).                                            *)
C8_Original ==
    (op.name = "insert_column" /\ Proceeds /\ TableInRange(ReadDoc, op.t) /\ op.p >= 0) =>
        /\ Len(NewRows) = Len(ReadRows)
        /\ \A k \in 1..Len(ReadRows) :
             LET old == CellsOf(ReadRows[k])
                 new == CellsOf(NewRows[k])
                 n == Len(old)
                 at == Min(op.p, n)
             IN ~IsBanner(ReadRows[k]) =>
                  /\ Len(new) = n + 1
                  /\ RemoveAt(new, at + 1) = old
                  /\ n >= 1 =>
                       LET ref == old[Max(at - 1, 0) + 1][1]
                           cell == new[at + 1]
                       IN IF old[1][1].n = "th"
                          THEN cell[1].n = "th" /\ CellContent(cell) = op.colname
                          ELSE /\ cell[1].n = "td"
                               /\ CellContent(cell) = op.dflt
                               /\ cell[1].a = Styled(ref.a.style, ref.a.class, ref.a.hl)

(* C8, amended: in every non-merge row with n >= 1 cells insert_column at  *)
(* a position p >= 0 gives n+1 cells, the new one at index min(p, n), the  *)
(* n original cells kept in order; the new cell is a th with column_name   *)
(* if the row's first cell is a th, else a td with default_value and the   *)
(* class/style/highlight of the original cell at index                     *)
(* max(min(p, n) - 1, 0).  A row without cells is left as it is.           *)
C8_InsertColumnCell ==
    (op.name = "insert_column" /\ Proceeds /\ TableInRange(ReadDoc, op.t) /\ op.p >= 0) =>
        /\ Len(NewRows) = Len(ReadRows)
        /\ \A k \in 1..Len(ReadRows) :
             LET old == CellsOf(ReadRows[k])
                 new == CellsOf(NewRows[k])
                 n == Len(old)
                 at == Min(op.p, n)
             IN /\ n = 0 => NewRows[k] = ReadRows[k]
                /\ (n >= 1 /\ ~IsBanner(ReadRows[k])) =>
                     /\ Len(new) = n + 1
                     /\ RemoveAt(new, at + 1) = old
                     /\ LET ref == old[Max(at - 1, 0) + 1][1]
                            cell == new[at + 1]
                        IN IF old[1][1].n = "th"
                           THEN cell[1].n = "th" /\ CellContent(cell) = op.colname
                           ELSE /\ cell[1].n = "td"
                                /\ CellContent(cell) = op.dflt
                                /\ cell[1].a = Styled(ref.a.style, ref.a.class, ref.a.hl)

\* insert_column at position 1 with name C and an empty default value has
\* turned header [A, B], row [1, 2] into header [A, C, B], row [1, "", 2], the
\* new data cell with the attributes of the cell that holds 1
C8_Witness ==
    /\ op.name = "insert_column"
    /\ pc = "done"
    /\ result.st = "ok"
    /\ ReadDoc = DocGrid
    /\ op.t = 0 /\ op.p = 1 /\ op.dflt = <<>>
    /\ LET rows == RowsOf(TableAt(store.html, 0))
       IN /\ Len(rows) = 2
          /\ [j \in 1..3 |-> CellContent(CellsOf(rows[1])[j])]
                = << <<Txt("A")>>, <<Txt("C")>>, <<Txt("B")>> >>
          /\ [j \in 1..3 |-> CellContent(CellsOf(rows[2])[j])]
                = << <<Txt("1")>>, <<>>, <<Txt("2")>> >>
          /\ CellsOf(rows[2])[2][1].a = Styled("s1", "c1", "y")

(* C9 as stated, for positions p >= 0: in insert_column every row flagged  *)
(* has_merge (first cell with a colspan attribute, at most 2 cells) has    *)
(* its first cell's colspan incremented by one and gets no new cell; every *)
(* other row gets exactly one new cell and no colspan change.              *)
C9_Original ==
    (op.name = "insert_column" /\ Proceeds /\ TableInRange(ReadDoc, op.t) /\ op.p >= 0) =>
        /\ Len(NewRows) = Len(ReadRows)
        /\ \A k \in 1..Len(ReadRows) :
             LET old == CellsOf(ReadRows[k])
                 new == CellsOf(NewRows[k])
             IN IF IsBanner(ReadRows[k])
                THEN /\ Len(new) = Len(old)
                     /\ new[1][1].a.colspan = old[1][1].a.colspan + 1
                ELSE /\ Len(new) = Len(old) + 1
                     /\ \E i \in 1..Len(new) : ColspansOf(RemoveAt(new, i)) = ColspansOf(old)

(* C9, amended: in insert_column at a position p >= 0 every row flagged    *)
(* has_merge has its first cell's colspan incremented by one and gets no   *)
(* new cell, its cells otherwise as they were; every other row that has at *)
(* least one cell gets exactly one new cell and no colspan change; a row   *)
(* without cells gets no cell.                                             *)
C9_InsertColumnMerge ==
    (op.name = "insert_column" /\ Proceeds /\ TableInRange(ReadDoc, op.t) /\ op.p >= 0) =>
        /\ Len(NewRows) = Len(ReadRows)
        /\ \A k \in 1..Len(ReadRows) :
             LET old == CellsOf(ReadRows[k])
                 new == CellsOf(NewRows[k])
             IN IF IsBanner(ReadRows[k])
                THEN /\ Len(new) = Len(old)
                     /\ new[1] = WithColspan(old[1], old[1][1].a.colspan + 1)
                     /\ Tail(new) = Tail(old)
                ELSE IF old = <<>> THEN new = <<>>
                ELSE /\ Len(new) = Len(old) + 1
                     /\ \E i \in 1..Len(new) : RemoveAt(new, i) = old

\* insert_column has succeeded on a table with a banner row of colspan 2, now
\* 3, and a plain row of two cells, now three
C9_Witness ==
    /\ op.name = "insert_column"
    /\ pc = "done"
    /\ result.st = "ok"
    /\ TableInRange(ReadDoc, op.t)
    /\ \E k \in 1..Len(ReadRows) :
          /\ IsBanner(ReadRows[k])
          /\ CellsOf(ReadRows[k])[1][1].a.colspan = 2
          /\ CellsOf(RowsOf(TableAt(store.html, op.t))[k])[1][1].a.colspan = 3
    /\ \E k \in 1..Len(ReadRows) :
          /\ ~IsBanner(ReadRows[k])
          /\ Len(CellsOf(ReadRows[k])) = 2
          /\ Len(CellsOf(RowsOf(TableAt(store.html, op.t))[k])) = 3

(* C10: delete_column at any position p >= 0: every merge row has its      *)
(* first cell's colspan decremented by one (unchanged if it is already 1)  *)
(* and keeps its cells; every other row loses the cell at p if p is less   *)
(* than its cell count and is left unchanged otherwise.                    *)
C10_DeleteColumnSymmetric ==
    (op.name = "delete_column" /\ Proceeds /\ TableInRange(ReadDoc, op.t) /\ op.p >= 0) =>
        /\ Len(NewRows) = Len(ReadRows)
        /\ \A k \in 1..Len(ReadRows) :
             LET old == CellsOf(ReadRows[k])
                 new == CellsOf(NewRows[k])
             IN IF IsBanner(ReadRows[k])
                THEN /\ Len(new) = Len(old)
                     /\ new[1][1].a.colspan = Max(old[1][1].a.colspan - 1, 1)
                ELSE IF op.p < Len(old) THEN new = RemoveAt(old, op.p + 1)
                ELSE NewRows[k] = ReadRows[k]

\* the row insert_table_row is to build: one cell per value, th if is_header
IsNewRow(row) ==
    LET cells == CellsOf(row)
    IN /\ row[1] = O("tr")
       /\ Len(cells) = Len(op.values)
       /\ \A j \in 1..Len(cells) :
            /\ cells[j][1] = O(IF op.is_header THEN "th" ELSE "td")
            /\ CellContent(cells[j]) = ProcessCellContent(op.values[j])
       /\ Concat(cells) = CellContent(row)

(* C11 as stated, for positions >= 0: insert_table_row on a table with n   *)
(* rows inserts exactly one new row with one cell per value (th if         *)
(* is_header else td), before the row at position when position < n and    *)
(* at the end of the rows for every position >= n; the existing rows keep  *)
(* their content and order.                                                *)
C11_Original ==
    (op.name = "insert_table_row" /\ ReadPage /\ TableInRange(ReadDoc, op.t) /\ op.r >= 0) =>
        /\ Proceeds
        /\ Len(NewRows) = Len(ReadRows) + 1
        /\ LET at == Min(op.r, Len(ReadRows)) + 1
           IN IsNewRow(NewRows[at]) /\ RemoveAt(NewRows, at) = ReadRows

(* C11, amended: insert_table_row on a table with n rows and a position    *)
(* 0 <= position <= n inserts exactly one new row with one cell per value  *)
(* (th if is_header else td): before the row at position when position <   *)
(* n, at the end of the rows when position = n, and for an empty table     *)
(* right after the tbody opening tag (after the table opening tag if there *)
(* is none); the existing rows keep their content and order.  A position   *)
(* > n gives the out-of-range failure and no write.                        *)
C11_InsertTableRow ==
    (op.name = "insert_table_row" /\ ReadPage /\ TableInRange(ReadDoc, op.t) /\ op.r >= 0) =>
        IF op.r > Len(ReadRows) THEN Failed("OutOfRange")
        ELSE /\ Proceeds
             /\ Len(NewRows) = Len(ReadRows) + 1
             /\ IsNewRow(NewRows[op.r + 1])
             /\ RemoveAt(NewRows, op.r + 1) = ReadRows
             /\ ReadRows = <<>> =>
                  LET old == TableAt(ReadDoc, op.t)
                      new == TableAt(new_html, op.t)
                      k == IF SearchTbody(old) # 0 THEN SearchTbody(old) ELSE 1
                  IN new = Slice(old, 1, k) \o NewRows[1] \o From(old, k + 1)

\* insert_table_row has put a header row of two cells between the two rows of
\* a table
C11_Witness ==
    /\ op.name = "insert_table_row"
    /\ pc = "done"
    /\ result.st = "ok"
    /\ op.r = 1 /\ op.is_header /\ Len(op.values) = 2
    /\ TableInRange(ReadDoc, op.t)
    /\ Len(ReadRows) = 2
    /\ LET rows == RowsOf(TableAt(store.html, op.t))
       IN /\ rows = InsertAt(ReadRows, 2, rows[2])
          /\ Len(CellsOf(rows[2])) = 2
          /\ CellsOf(rows[2])[1][1] = O("th")

(* C12: every column/row/cell operation ends with a result value and never *)
(* with an exception: success only if the store accepted the write of the  *)
(* new document; a missing page, a table or row index beyond the tables or *)
(* rows, a merged-cell refusal and a rejected write each give a failure    *)
(* result.                                                                 *)
C12_ResultNeverRaises ==
    (op.name \in Structural /\ pc = "done") =>
        /\ result.st \in {"ok", "fail"}
        /\ result.st = "ok" =>
             /\ Wrote
             /\ store = [exists |-> TRUE, html |-> new_html, version |-> sent[1].version]
        /\ ~ReadPage => result = [st |-> "fail", err |-> "NotFound"]
        /\ (ReadPage /\ op.t >= Len(TablesOf(ReadDoc))) => Failed("OutOfRange")
        /\ (ReadPage /\ op.name \in {"update_table_cell", "delete_table_row"}
            /\ TableInRange(ReadDoc, op.t) /\ op.r >= Len(ReadRows)) => Failed("OutOfRange")
        /\ result.err = "Unsupported" => result.st = "fail"
        /\ (Wrote /\ store.html # new_html) => result.st = "fail"

(* C13: the document insert_content hands to the write, and writes, is the *)
(* compiled Markdown followed by the document it read when position is     *)
(* "prepend", and the document it read followed by the compiled Markdown    *)
(* for any other position: the document read is an unmodified prefix or    *)
(* suffix of what is written.                                              *)
C13_InsertContent ==
    (op.name = "insert_content" /\ ReadPage) =>
        LET compiled == markdown_to_confluence(op.new.lines)
        IN /\ Proceeds
           /\ new_html = IF op.position = "prepend" THEN compiled \o ReadDoc
                         ELSE ReadDoc \o compiled
           /\ IF op.position = "prepend"
              THEN From(new_html, Len(new_html) - Len(ReadDoc) + 1) = ReadDoc
              ELSE Slice(new_html, 1, Len(ReadDoc)) = ReadDoc
           /\ Wrote => sent[1].html = new_html
           /\ result.st = "ok" => store.html = new_html

\* insert_content has put a compiled heading and list in front of a page that
\* was not empty
C13_Witness ==
    /\ op.name = "insert_content"
    /\ op.position = "prepend"
    /\ pc = "done"
    /\ result.st = "ok"
    /\ ReadDoc # <<>>
    /\ store.html # ReadDoc
    /\ store.html[1] = O("h1")
    /\ From(store.html, Len(store.html) - Len(ReadDoc) + 1) = ReadDoc

(* ------------------------ properties of the compiler ------------------- *)
\* a heading line, one or more blank lines, k >= 1 unordered items, then
\* nothing but blank lines (the text "# Title\n\n- a\n- b\n" splits so)
HeadingThenList(ls, k) ==
    /\ k >= 1
    /\ Len(ls) >= k + 2
    /\ ls[1].kind = "h"
    /\ \E b \in 3..Len(ls) :
         /\ b + k - 1 <= Len(ls)
         /\ \A n \in 2..(b - 1) : ls[n].kind = "blank"
         /\ \A n \in b..(b + k - 1) : ls[n].kind = "ul"
         /\ \A n \in (b + k)..Len(ls) : ls[n].kind = "blank"

IsElement(l, name) == l # <<>> /\ l[1] = O(name) /\ l[Len(l)] = Close(name)

\* C15: compiling a heading line, blank lines and then k >= 1 consecutive
\* unordered list item lines emits, in order, one heading element, one <ul>
\* open, k <li> elements and one </ul> close, and no paragraph element
\* anywhere in the output.
C15_HeadingThenList ==
    \A k \in 1..MaxLines :
        (md_pc = "done" /\ HeadingThenList(md_lines, k)) =>
            LET hl == md_st.html_lines
            IN /\ Len(hl) = k + 3
               /\ IsElement(hl[1], "h1")
               /\ hl[2] = <<O("ul")>>
               /\ \A n \in 3..(k + 2) : IsElement(hl[n], "li")
               /\ hl[k + 3] = <<Close("ul")>>
               /\ md_out = JoinLines(hl)
               /\ \A n \in 1..Len(md_out) : md_out[n] \notin {O("p"), Close("p")}

C15_Witness == md_pc = "done" /\ HeadingThenList(md_lines, 2)

CountTok(s, t) == Cardinality({i \in 1..Len(s) : s[i] = t})

\* every wrapper of this name opened in the output is closed in it
Balanced(s, name) == CountTok(s, O(name)) = CountTok(s, Close(name))

\* C16: at end of input the compiler closes whatever block is still open: a
\* table, a list or a code block that is open when the last line has been
\* consumed is closed in the output, so an unterminated fenced block's
\* buffered body is still emitted as a macro and no buffered line is lost.
C16_EndClosesOpenBlocks ==
    md_pc = "done" =>
        /\ Balanced(md_out, "table")
        /\ Balanced(md_out, "ul")
        /\ Balanced(md_out, "ol")
        /\ md_st.in_code_block =>
             /\ md_st.html_lines # <<>>
             /\ md_st.html_lines[Len(md_st.html_lines)]
                    = CodeMacro(md_st.code_lang, md_st.code_content)

\* the part of C16 about tables and lists alone
C16_TablesAndListsClosed ==
    md_pc = "done" =>
        Balanced(md_out, "table") /\ Balanced(md_out, "ul") /\ Balanced(md_out, "ol")

\* the table wrappers of the output alternate, an open first: in every
\* prefix the opens are as many as the closes or one more
TablesAlternate(s) ==
    \A i \in 0..Len(s) :
        LET pre == SubSeq(s, 1, i)
        IN CountTok(pre, O("table")) - CountTok(pre, Close("table")) \in
               (IF i > 0 /\ s[i] = O("table") THEN {1}
                ELSE IF i > 0 /\ s[i] = Close("table") THEN {0}
                ELSE {0, 1})

\* the row opened at position i of the output is the first one of its table
FirstRowOfTable(s, i) ==
    \E t \in 1..(i - 1) :
        /\ s[t] = O("table")
        /\ \A j \in (t + 1)..(i - 1) : s[j] # O("tr")

\* the cells of the row opened at position i all have this tag
RowIsOf(s, i, tag) ==
    \E e \in (i + 1)..Len(s) :
        /\ s[e] = Close("tr")
        /\ \A j \in (i + 1)..(e - 1) : s[j] # Close("tr")
        /\ \A j \in (i + 1)..(e - 1) :
               (s[j].k = "open" /\ s[j].n \in {"th", "td"}) => s[j].n = tag

RowsOfTables(s) ==
    \A i \in 1..Len(s) :
        s[i] = O("tr") =>
            /\ \E t \in 1..(i - 1) :
                   /\ s[t] = O("table")
                   /\ \A j \in (t + 1)..(i - 1) : s[j] # Close("table")
            /\ RowIsOf(s, i, IF FirstRowOfTable(s, i) THEN "th" ELSE "td")

C17_Wrappers ==
    /\ TablesAlternate(JoinLines(md_st.html_lines))
    /\ RowsOfTables(JoinLines(md_st.html_lines))
    /\ md_pc = "done" => Balanced(md_out, "table") /\ md_out = JoinLines(md_st.html_lines)

\* the loop reads an alignment row outside a code block
ReadsAlignmentRow ==
    /\ md_pc = "loop"
    /\ md_pc' = "loop"
    /\ Len(md_lines') = Len(md_lines) + 1
    /\ md_lines'[Len(md_lines')].kind = "sep"
    /\ ~md_st.in_code_block

\* C17 as stated: an alignment row emits nothing at all
C17_Original ==
    /\ []C17_Wrappers
    /\ [][ReadsAlignmentRow =>
             /\ md_st'.html_lines = md_st.html_lines
             /\ md_st'.in_table = md_st.in_table]_vars

\* C17: for any sequence of input lines the table wrappers are emitted
\* exactly once per table: table-open and table-close tags strictly
\* alternate, starting with an open and ending with a close; the first row
\* emitted after each open is a th row and every further row before the
\* matching close is a td row; an alignment row emits no row and no table
\* wrapper and does not change the table state: all it emits is the close of
\* a list that is open, as every line does that is not a list item.
C17_TableWrappers ==
    /\ []C17_Wrappers
    /\ [][ReadsAlignmentRow =>
             /\ md_st'.html_lines =
                    (IF md_st.in_list
                     THEN Append(md_st.html_lines, <<Close(md_st.list_type)>>)
                     ELSE md_st.html_lines)
             /\ md_st'.in_table = md_st.in_table]_vars

KindsOf(ls) == [n \in 1..Len(ls) |-> ls[n].kind]

C17_Witness ==
    /\ md_pc = "done"
    /\ KindsOf(md_lines) = <<"ul", "sep", "row", "row">>
    /\ CountTok(md_out, O("th")) = 2
    /\ CountTok(md_out, O("td")) = 2

ListOpens(s) == CountTok(s, O("ul")) + CountTok(s, O("ol"))
ListCloses(s) == CountTok(s, Close("ul")) + CountTok(s, Close("ol"))

\* list wrappers are never nested: in every prefix of the output at most one is open
ListsNotNested(s) ==
    \A i \in 0..Len(s) :
        ListOpens(SubSeq(s, 1, i)) - ListCloses(SubSeq(s, 1, i)) \in {0, 1}

\* the <li> at position i stands after an open of a list with no list tag between
ItemInsideOpen(s, i) ==
    \E o \in 1..(i - 1) :
        /\ s[o] \in {O("ul"), O("ol")}
        /\ \A j \in (o + 1)..(i - 1) : s[j] \notin {O("ul"), O("ol"), Close("ul"), Close("ol")}

\* and the next list tag after it is the close of that list
ItemBeforeClose(s, i) ==
    \E o \in 1..(i - 1), c \in (i + 1)..Len(s) :
        /\ s[o] \in {O("ul"), O("ol")}
        /\ s[c] = Close(s[o].n)
        /\ \A j \in (o + 1)..(c - 1) : s[j] \notin {O("ul"), O("ol"), Close("ul"), Close("ol")}

C18_Lists ==
    LET s == JoinLines(md_st.html_lines)
    IN /\ ListsNotNested(s)
       /\ \A i \in 1..Len(s) : s[i] = O("li") => ItemInsideOpen(s, i)
       /\ (md_pc = "loop" /\ md_st.in_list) =>
              /\ md_st.list_type \in {"ul", "ol"}
              /\ CountTok(s, O(md_st.list_type)) = CountTok(s, Close(md_st.list_type)) + 1
       /\ md_pc = "done" =>
              /\ md_out = s
              /\ Balanced(s, "ul")
              /\ Balanced(s, "ol")
              /\ \A i \in 1..Len(s) : s[i] = O("li") => ItemBeforeClose(s, i)

\* the loop reads a list item line (inside a code block a line is code, not an item)
ReadsListItem ==
    /\ md_pc = "loop"
    /\ md_pc' = "loop"
    /\ Len(md_lines') = Len(md_lines) + 1
    /\ md_lines'[Len(md_lines')].kind \in {"ul", "ol"}
    /\ ~md_st.in_code_block

\* what the line read has appended to the output, a table close apart
AppendedByItem ==
    LET n == Len(md_st.html_lines) + (IF md_st.in_table THEN 1 ELSE 0)
    IN SubSeq(md_st'.html_lines, n + 1, Len(md_st'.html_lines))

\* C18: for any sequence of input lines, a list item line opens a list
\* wrapper of its kind (ul/ol) iff no list is open or the open list is of the
\* other kind, in which case the previous wrapper is closed first; every <li>
\* is emitted between an open and a close of its own kind, and list opens and
\* closes are balanced and never nested.
C18_ListWrappers ==
    /\ []C18_Lists
    /\ [][ReadsListItem =>
            LET kind == md_lines'[Len(md_lines')].kind
                new == AppendedByItem
            IN /\ md_st'.in_list /\ md_st'.list_type = kind
               /\ new # <<>> /\ IsElement(new[Len(new)], "li")
               /\ (~md_st.in_list) => Len(new) = 2 /\ new[1] = <<O(kind)>>
               /\ (md_st.in_list /\ md_st.list_type # kind) =>
                      /\ Len(new) = 3
                      /\ new[1] = <<Close(md_st.list_type)>>
                      /\ new[2] = <<O(kind)>>
               /\ (md_st.in_list /\ md_st.list_type = kind) => Len(new) = 1]_vars

C18_Witness ==
    /\ md_pc = "done"
    /\ KindsOf(md_lines) = <<"ul", "ul", "ol", "p">>
    /\ CountTok(md_out, O("li")) = 3
    /\ CountTok(md_out, Close("ul")) = 1
    /\ CountTok(md_out, Close("ol")) = 1

\* the loop reads a line; LineRead is that line
ReadsLine == md_pc = "loop" /\ md_pc' = "loop" /\ Len(md_lines') = Len(md_lines) + 1
LineRead == md_lines'[Len(md_lines')]

\* the macro a language asks for
MacroOf(lang) ==
    IF lang = "mermaid" THEN "mermaid-macro"
    ELSE IF lang \in {"plantuml", "uml", "puml"} THEN "plantuml"
    ELSE "code"

\* the lines as they were written, one per line
Verbatim(ls) == JoinLines([n \in 1..Len(ls) |-> <<Md("raw", ls[n].src, "")>>])

\* m is one macro of this name for this language with this body
IsMacro(m, lang, content) ==
    LET param == IF MacroOf(lang) = "code" /\ lang # ""
                 THEN <<OpenV("ac:parameter", "language"), Txt(lang), Close("ac:parameter")>>
                 ELSE <<>>
    IN m = <<OpenV("ac:structured-macro", MacroOf(lang))>> \o param
           \o <<O("ac:plain-text-body"), Md("cdata", "[", "")>> \o Verbatim(content)
           \o <<Md("cdata", "]", ""), Close("ac:plain-text-body"), Close("ac:structured-macro")>>

\* C19: a fence line toggles the code block; while the block is open every
\* line is buffered verbatim and triggers no heading, list, table or
\* paragraph output; on the closing fence exactly one macro is emitted whose
\* kind is determined by the opening fence's language (mermaid -> mermaid
\* macro, plantuml/uml/puml -> plantuml macro, anything else -> code macro
\* carrying that language), with the buffered lines as its unescaped body in
\* their original order.
C19_CodeBlock ==
    [][ReadsLine =>
        /\ (LineRead.kind = "fence") <=> (md_st'.in_code_block # md_st.in_code_block)
        /\ (LineRead.kind = "fence" /\ ~md_st.in_code_block) =>
               /\ md_st'.code_lang = LineRead.lang
               /\ md_st'.code_content = <<>>
               /\ md_st'.html_lines = md_st.html_lines
        /\ (LineRead.kind # "fence" /\ md_st.in_code_block) =>
               /\ md_st'.code_content = Append(md_st.code_content, LineRead)
               /\ md_st'.code_lang = md_st.code_lang
               /\ md_st'.html_lines = md_st.html_lines
               /\ md_st'.in_table = md_st.in_table
               /\ md_st'.in_list = md_st.in_list
        /\ (LineRead.kind = "fence" /\ md_st.in_code_block) =>
               /\ Len(md_st'.html_lines) = Len(md_st.html_lines) + 1
               /\ SubSeq(md_st'.html_lines, 1, Len(md_st.html_lines)) = md_st.html_lines
               /\ IsMacro(md_st'.html_lines[Len(md_st'.html_lines)],
                          md_st.code_lang, md_st.code_content)]_vars

C19_Witness ==
    /\ md_pc = "done"
    /\ KindsOf(md_lines) = <<"fence", "p", "ul", "fence">>
    /\ md_lines[1].lang = "puml"
    /\ md_lines[4].lang = "python"
    /\ IsMacro(md_out, "puml", <<md_lines[2], md_lines[3]>>)

(* ---------------------- properties of the round trip ------------------- *)
\* C14: for Markdown x in the canonical subset (headings, bold/italic,
\* inline code, links, plain paragraphs, simple tables without merged cells,
\* fenced code blocks with a language tag) the round trip is idempotent on
\* the second pass: with r(x) = confluence_to_markdown(markdown_to_confluence(x)),
\* r(r(x)) = r(x).
C14_RoundTripIdempotent ==
    (rt_pc = "md" /\ Len(rt_hist) >= 2) => rt_hist[2] = rt_hist[1]

\* the round trip is stable when no line of a code body holds an entity
C14_StableWithoutEntityInCode ==
    (rt_pc = "md" /\ Len(rt_hist) >= 2) =>
        \/ rt_hist[2] = rt_hist[1]
        \/ \E n \in 1..Len(rt_hist[1]) :
               rt_hist[1][n].k = "raw" /\ UnescapeText(rt_hist[1][n].n) # rt_hist[1][n].n

\* the lines of the text a call of convert_table returned
TableLines(md) == LET ls == SplitNL(md) IN SubSeq(ls, 1, Len(ls) - 1)

\* a separator row of n cells: |---|---|
IsSeparatorOf(l, n) ==
    /\ Len(l) = (IF n = 0 THEN 2 ELSE 2 * n + 1)
    /\ \A j \in 1..Len(l) :
           l[j] = (IF n = 0 \/ j % 2 = 1 THEN Txt("|") ELSE Txt("---"))

TextsOf(s) ==
    LET IsWord(t) == t.k = "text" /\ t # NL /\ ~IsBar(t)
    IN SelectSeq(s, IsWord)

\* the Markdown row of this <tr>: | c1 | c2 |, the texts of the row in order
IsRowOf(l, row) ==
    LET n == Len(FindIter(row, "cell"))
    IN /\ Len(l) >= 2
       /\ l[1] = Txt("| ")
       /\ l[Len(l)] = Txt(" |")
       /\ CountTok(l, Txt(" | ")) = (IF n = 0 THEN 0 ELSE n - 1)
       /\ TextsOf(l) = TextsOf(row)

\* C20: the decompiler rewrites each table with at least one row into a
\* Markdown table that contains exactly one separator row, placed
\* immediately after the first row and having as many '---' cells as the
\* first row has cells; all other rows follow in their original order, one
\* Markdown row per <tr>.
C20_DecompiledTable ==
    \A k \in 1..Len(rt_tables) :
        LET table_html == rt_tables[k].table_html
            rows == FindIter(table_html, "tr")
            ls == TableLines(rt_tables[k].md)
        IN Len(rows) >= 1 =>
              /\ Len(ls) = Len(rows) + 1
              /\ IsRowOf(ls[1], Inner(table_html, rows[1]))
              /\ IsSeparatorOf(ls[2], Len(FindIter(Inner(table_html, rows[1]), "cell")))
              /\ \A i \in 2..Len(rows) : IsRowOf(ls[i + 1], Inner(table_html, rows[i]))
              /\ \A i \in 1..Len(ls) : i # 2 => ls[i][1] # Txt("|")

\* the same for the tables in whose cells no substitution has left a newline
C20_TablesOfPlainCells ==
    \A k \in 1..Len(rt_tables) :
        LET table_html == rt_tables[k].table_html
            rows == FindIter(table_html, "tr")
            ls == TableLines(rt_tables[k].md)
        IN (Len(rows) >= 1 /\ \A j \in 2..(Len(table_html) - 1) :
                                  table_html[j] = NL =>
                                      IsTag(table_html[j - 1]) /\ IsTag(table_html[j + 1])) =>
              /\ Len(ls) = Len(rows) + 1
              /\ IsRowOf(ls[1], Inner(table_html, rows[1]))
              /\ IsSeparatorOf(ls[2], Len(FindIter(Inner(table_html, rows[1]), "cell")))
              /\ \A i \in 2..Len(rows) : IsRowOf(ls[i + 1], Inner(table_html, rows[i]))
              /\ \A i \in 1..Len(ls) : i # 2 => ls[i][1] # Txt("|")

(* C21: for every editor operation the version number sent in the write   *)
(* is 1 + the version of the page snapshot the written document was       *)
(* computed from (page_info, the operation's own get_page_html); hence a   *)
(* write of another client between the operation's read and its write     *)
(* makes the store reject the write, and the operation never succeeds over *)
(* the other client's update.                                              *)
C21_SnapshotVersion ==
    /\ \A i \in 1..Len(sent) : sent[i].version = page_info.version + 1
    /\ (pc = "done" /\ result.st = "ok") => otherWrites = 0

\* what the code does instead: the version sent is 1 + the version that
\* update_page_html read itself, so only a write of the other client after
\* that second read is rejected
C21_VersionOfSecondRead ==
    /\ \A i \in 1..Len(sent) : sent[i].version = upd_version + 1
    /\ (pc = "done" /\ result.st = "ok") => store.version = upd_version + 1

\* the checks of the operation on the document it read: the indexes are below
\* their counts, the row is not refused for merged cells, old_html occurs
ValidationPassed ==
    LET tables == TablesOf(ReadDoc)
        rows == RowsOf(Group0(ReadDoc, tables[PyPos(tables, op.t)]))
        row == rows[PyPos(rows, op.r)]
    IN /\ op.name \in Structural => op.t < Len(tables)
       /\ op.name \in {"update_table_cell", "delete_table_row"} => op.r < Len(rows)
       /\ op.name = "insert_table_row" => op.r <= Len(rows)
       /\ op.name = "update_table_cell" =>
            /\ ~MentionsColspan(row) /\ ~MentionsRowspan(row)
            /\ op.c < Len(CellsOf(row))
       /\ op.name = "delete_table_row" => ~MentionsRowspan(row)
       /\ op.name = "edit_page" => Positions(ReadDoc, op.old) # {}

\* what holds of the writes issued so far
WritesInOrder ==
    /\ Len(sent) <= 1
    /\ Wrote => ReadPage /\ ValidationPassed
    /\ (pc = "done" /\ result.st = "fail"
        /\ result.err \in {"NotFound", "OutOfRange", "Unsupported", "NoMatch"}) =>
           /\ sent = <<>>
           /\ otherWrites = 0 => IF ReadPage THEN StoreAsRead ELSE ~store.exists

\* a step that issues a write, or changes the store
WriteStep ==
    /\ sent' # sent =>
         /\ ReadPage /\ ValidationPassed
         /\ sent = <<>>
         /\ Len(sent') = 1
    /\ store' # store =>
         \/ otherWrites' # otherWrites
         \/ /\ sent' # sent
            /\ store' = [store EXCEPT !.html = sent'[1].html, !.version = sent'[1].version]
            /\ result'.st = "ok"

(* C22: in every run of an editor operation a write to the store happens   *)
(* only after the operation has read the page and after all its checks     *)
(* have passed, and at most one write is issued; when the operation        *)
(* returns the page-not-found, out-of-range, merged-cell or no-match       *)
(* failure no write has been issued and the stored document and version    *)
(* are unchanged (by this client).                                         *)
C22_WriteAfterValidation == []WritesInOrder /\ [][WriteStep]_vars

\* update_table_cell has passed its checks, issued its one write, and the
\* store holds the written document, which differs from what was read
C22_Witness ==
    /\ op.name = "update_table_cell"
    /\ pc = "done"
    /\ result.st = "ok"
    /\ Len(sent) = 1
    /\ store.html = sent[1].html
    /\ store.html # ReadDoc

\* the first call was name and got as far as its write; the second call is made
PairDone(name) ==
    sq_pc = "deleted" /\ sq_calls[1].op.name = name /\ sq_calls[1].st = "write"
\* the rows of the table the pair addressed, in a document
PairRows(doc) ==
    LET tables == TablesOf(doc)
    IN RowsOf(Group0(doc, tables[PyPos(tables, sq_calls[1].op.t)]))
\* the two rows have the same cells: as many, with the same contents in the
\* same order and the same colspan values
SameCells(row1, row2) ==
    LET c1 == CellsOf(row1)
        c2 == CellsOf(row2)
    IN /\ Len(c1) = Len(c2)
       /\ \A j \in 1..Len(c1) :
             /\ CellContent(c1[j]) = CellContent(c2[j])
             /\ c1[j][1].a.colspan = c2[j][1].a.colspan
\* row k of the table is as it was before the two calls
RowRestored(k) == SameCells(PairRows(sq_doc)[k], PairRows(sq_calls[2].html)[k])

(* C23: insert_column at position p followed by delete_column at the same  *)
(* position on the same table restores the table's structure: every row    *)
(* has as many cells as before, with the same contents in the same order   *)
(* and the same colspan values, for every p >= 0 and every mix of banner   *)
(* rows and simple rows.                                                   *)
C23_InsertThenDeleteColumn ==
    (PairDone("insert_column") /\ sq_calls[1].op.p >= 0) =>
        /\ Len(PairRows(sq_calls[2].html)) = Len(PairRows(sq_doc))
        /\ \A k \in 1..Len(PairRows(sq_doc)) : RowRestored(k)

\* what the two calls do restore: a row that is no banner row and has at
\* least p cells
C23_SimpleRowsRestored ==
    (PairDone("insert_column") /\ sq_calls[1].op.p >= 0) =>
        /\ Len(PairRows(sq_calls[2].html)) = Len(PairRows(sq_doc))
        /\ \A k \in 1..Len(PairRows(sq_doc)) :
              (~IsBanner(PairRows(sq_doc)[k])
               /\ sq_calls[1].op.p <= Len(CellsOf(PairRows(sq_doc)[k]))) => RowRestored(k)

\* the first call was insert_table_row at a position 0..n of a table of the
\* document, and it got as far as its write
RowInserted ==
    /\ sq_pc \in {"inserted", "deleted"}
    /\ sq_calls[1].op.name = "insert_table_row"
    /\ sq_calls[1].st = "write"
    /\ TableInRange(sq_doc, sq_calls[1].op.t)
    /\ 0 <= sq_calls[1].op.r
    /\ sq_calls[1].op.r <= Len(PairRows(sq_doc))
\* after the first call the row with ordinal p is a new row with one cell per
\* value, and the other rows are the rows of before, in their order
NewRowAtPosition ==
    LET before == PairRows(sq_doc)
        after == PairRows(sq_calls[1].html)
        p == sq_calls[1].op.r
    IN /\ Len(after) = Len(before) + 1
       /\ Len(CellsOf(after[p + 1])) = Len(sq_calls[1].op.values)
       /\ RemoveAt(after, p + 1) = before
\* a cell value of the inserted row contains the word rowspan
ValueSaysRowspan ==
    \E i \in 1..Len(sq_calls[1].op.values) :
        \E j \in 1..Len(sq_calls[1].op.values[i]) :
            sq_calls[1].op.values[i][j] = Txt("rowspan")

(* C24: for a table with n rows and a position p with 0 <= p <= n, a       *)
(* successful insert_table_row at p makes the new row the row with ordinal *)
(* p, and a following delete_table_row at row index p returns the document *)
(* to exactly the document before the insertion.                           *)
C24_InsertThenDeleteRow ==
    RowInserted =>
        /\ NewRowAtPosition
        /\ sq_pc = "deleted" => sq_calls[2].html = sq_doc

\* the two calls restore the document unless a value of the new row contains
\* the word rowspan, and then delete_table_row refuses the row
C24_RestoredUnlessRowspanText ==
    RowInserted =>
        /\ NewRowAtPosition
        /\ sq_pc = "deleted" =>
             IF ValueSaysRowspan
             THEN sq_calls[2].st = "fail" /\ sq_calls[2].html = sq_calls[1].html
             ELSE sq_calls[2].st = "write" /\ sq_calls[2].html = sq_doc

\* an index the operation was given is negative
NegativeIndex ==
    \/ op.name \in Structural /\ op.t < 0
    \/ op.name \in {"update_table_cell", "insert_table_row", "delete_table_row"} /\ op.r < 0
    \/ op.name = "update_table_cell" /\ op.c < 0
    \/ op.name \in ColumnOps /\ op.p < 0

(* C25: for a negative table, row or column index every editor operation   *)
(* returns a failure result without issuing a write: it neither raises an  *)
(* exception nor edits a table, row or cell counted from the end.          *)
C25_NegativeIndexFails ==
    (ReadPage /\ NegativeIndex) => pc = "done" /\ result.st = "fail" /\ sent = <<>>

\* how many of code block, table and list the compiler has open
OpenBlocks ==
    Cardinality({f \in {"in_code_block", "in_table", "in_list"} : md_st[f]})
\* the token at position i of the output opens a code or diagram macro
OpensMacro(s, i) == s[i].k = "open" /\ s[i].n = "ac:structured-macro"
\* no table and no list is open in the output before position i
NothingOpenBefore(s, i) ==
    LET pre == SubSeq(s, 1, i - 1)
    IN Balanced(pre, "table") /\ Balanced(pre, "ul") /\ Balanced(pre, "ol")

(* C26: at every step of compiling any sequence of lines at most one of    *)
(* code block, table and list is open: when a fence line opens a code      *)
(* block an open table or list has been closed, so no code or diagram      *)
(* macro is emitted between a table's or a list's open tag and its close   *)
(* tag.                                                                    *)
C26_OneBlockOpen ==
    /\ OpenBlocks <= 1
    /\ md_pc = "done" =>
         \A i \in 1..Len(md_out) : OpensMacro(md_out, i) => NothingOpenBefore(md_out, i)

\* the part of C26 that holds: a table and a list are never open together
C26_TableOrList == ~(md_st.in_table /\ md_st.in_list)

(* C27: upload_attachment leaves the client's shared session headers as it *)
(* found them: after it returns, on the success path and on the failure    *)
(* paths, Content-Type is again application/json and X-Atlassian-Token is  *)
(* absent, so every later request sent through _request carries the JSON   *)
(* Content-Type header.                                                    *)
C27_HeadersRestored ==
    /\ up_pc = "idle" => headers = JsonHeaders
    /\ \A i \in 1..Len(up_log) :
          up_log[i].via = "_request" => up_log[i].ct = "application/json" /\ ~up_log[i].token

\* an upload whose POST raised, after an upload that succeeded, is followed by
\* a request through _request; the POSTs went out without Content-Type
C27_Witness ==
    /\ up_pc = "idle"
    /\ up_result = "raise"
    /\ Len(up_log) = 5
    /\ up_log[2].via = "post" /\ up_log[2].ct = "" /\ up_log[2].token
    /\ up_log[4].via = "post"
    /\ up_log[5].via = "_request"

====
